---------------------------- MODULE Spec2Model ----------------------------
(***************************************************************************)
(* guide2goWEB: the Schedules Direct client (sd.go), the sync orchestrator *)
(* (data.go) and the cache store (cache.go) as state machines.             *)
(*                                                                         *)
(* Specifications:                                                         *)
(*   SpecBackoff  backoff(attempt) on 64-bit durations                     *)
(*   SpecConnect  one Connect call against scripted answers                *)
(*   SpecLimiter  two clients on the one rate limiter, with cancellation   *)
(*   SpecSched    processSchedules and its merge goroutines                *)
(*   Spec         Update run after run: login, GetData, XMLTV, CleanUp     *)
(*   SpecStore    the store alone: merges, Save step by step, Open         *)
(*   SpecRating   GetRating on bounded programs and rating options         *)
(*   SpecImages   proxyImages and isValidImageID on bounded image IDs      *)
(*   SpecPath     validateImagePath on bounded names                       *)
(*   SpecRuns     the Update goroutines of /run on the store and its lock  *)
(*   SpecChannels the dialogue of manageChannels on Config.Station         *)
(***************************************************************************)
EXTENDS Integers, Sequences, FiniteSets, TLC

VARIABLES
    bAttempt,   \* backoff: the attempt index passed to backoff()
    bDelay,     \* backoff: the duration returned for bAttempt, or NoDelay
    fnCall,     \* a function under test: its name, its arguments, its locals and result
    tokens,     \* rateLimiter: tokens in the bucket
    ctxDone,    \* the caller's context (main's ctx) has been cancelled
    conn,       \* per client: the state of its Connect call (sd.Req, sd.Resp, loop)
    script,     \* per client: what the remote side answers to attempt 1, 2, 3
    winSent,    \* requests admitted (token taken) since the observation window was opened
    winRefill,  \* refill periods (100 ms) elapsed since the window was opened
    cache,      \* the store: the four maps, expiration, which maps are nil
    file,       \* the cache file on disk: NoFile or the snapshot it holds
    tmp,        \* the temporary file Save writes next to the cache file
    mu,         \* the store's RWMutex: "free", "held", or "stuck" once a holder waits for it
    now,        \* time.Now(), in days
    orch,       \* the orchestrator (Update and what it calls): position and locals
    tasks,      \* the merge goroutines of the current phase, in dispatch order
    wg,         \* the phase's sync.WaitGroup counter
    errChan,    \* the phase's error channel: buffer (capacity 1) and closed flag
    runs        \* per goroutine started by /run: its step of Update and where it is in it

pureVars == <<bAttempt, bDelay, fnCall, runs>>
clientVars == <<tokens, ctxDone, conn, script, winSent, winRefill>>
storeVars == <<cache, file, tmp, mu, now>>
orchVars == <<orch, tasks, wg, errChan>>
nonClientVars == <<pureVars, storeVars, orchVars>>
vars == <<bAttempt, bDelay, fnCall, tokens, ctxDone, conn, script, winSent, winRefill,
          cache, file, tmp, mu, now, orch, tasks, wg, errChan, runs>>

(***************************************************************************)
(* time.Duration is an int64 count of nanoseconds.  A value is modelled by *)
(* the set of the bit positions 0..63 that are set in its two's-complement *)
(* representation, so that every operation is taken modulo 2^64 as the     *)
(* machine does.                                                           *)
(***************************************************************************)
WordBits == 0 .. 63

\* The bits of a natural number below 2^31.
BitsOf(n) == {b \in 0 .. 30 : (n \div (2 ^ b)) % 2 = 1}

\* Go's x << n on a 64-bit word: bits shifted out are lost, n >= 64 gives 0.
Shl64(a, n) == {b + n : b \in {x \in a : x + n <= 63}}

\* The carry into bit k of a + b: some lower bit generates a carry (both set)
\* and every bit in between propagates it (at least one set).
CarryInto(a, b, k) ==
    \E j \in 0 .. k - 1 :
        /\ j \in a
        /\ j \in b
        /\ \A m \in j + 1 .. k - 1 : m \in a \/ m \in b

\* a + b modulo 2^64.
Add64(a, b) ==
    {k \in WordBits : ((k \in a) # (k \in b)) # CarryInto(a, b, k)}

RECURSIVE MulBits(_, _)
MulBits(a, bs) ==
    IF bs = {} THEN {}
    ELSE LET k == CHOOSE x \in bs : \A y \in bs : x <= y
         IN  Add64(Shl64(a, k), MulBits(a, bs \ {k}))

\* a * b modulo 2^64 (shift and add over the set bits of b).
Mul64(a, b) == MulBits(a, b)

IsNegative(a) == 63 \in a

\* a < b on the unsigned words: decided at the highest bit where they differ.
UnsignedLess(a, b) ==
    \E k \in WordBits :
        /\ k \in b
        /\ k \notin a
        /\ \A j \in WordBits : j > k => ((j \in a) <=> (j \in b))

\* a < b on int64.
SignedLess(a, b) ==
    IF IsNegative(a) # IsNegative(b) THEN IsNegative(a) ELSE UnsignedLess(a, b)

SignedLeq(a, b) == a = b \/ SignedLess(a, b)

Zero64 == {}

\* time.Second, in nanoseconds.
Second == BitsOf(1000000000)

maxRetries == 3

retryDelay == Mul64(BitsOf(2), Second)

maxBackoff == Mul64(BitsOf(30), Second)

\* func backoff(attempt int) time.Duration
backoff(attempt) ==
    LET duration == Mul64(retryDelay, Shl64(BitsOf(1), attempt))
    IN  IF SignedLess(maxBackoff, duration) THEN maxBackoff ELSE duration

(***************************************************************************)
(* The client: SD.Connect, its rate limiter and the remote side.           *)
(***************************************************************************)
Clients == {"c1", "c2"}

\* rate.NewLimiter(rate.Every(100*time.Millisecond), 1): the limiter that
\* Connect waits on.
rateLimiterBurst == 1

\* rate.NewLimiter(rate.Every(100*time.Millisecond), maxConcurrentRequests):
\* declared in data.go; no code waits on it.
maxConcurrentRequests == 5

\* Refill periods (100 ms) in the shortest sleep, retryDelay = 2 s.
RefillsPerRetryDelay == 20

\* The refill counter of the observation window saturates here.
RefillCap == 4

Min(a, b) == IF a < b THEN a ELSE b

\* The Connect calls of a client that are counted.
MaxCalls == 1

\* The admitted requests of a window are counted as far as the bound on them
\* can reach.
WindowSentCap == maxConcurrentRequests + RefillCap + 1

\* What happens to one request: the transport fails (client.Do, <<0, "NetErr">>),
\* the body cannot be read in full (io.ReadAll, <<0, "ReadErr">>), or a
\* response <<status, body kind>> arrives.  Body kinds: "payload" decodes and carries code 0, "errobj" is
\* the remote error object (code # 0), "garbage" is not JSON, "badarray" is
\* JSON that the client accepts and the typed decode of the store rejects.
Responses ==
    { <<200, "payload">>, <<200, "errobj">>, <<200, "garbage">>,
      <<400, "errobj">>, <<429, "errobj">>, <<503, "errobj">>, <<503, "garbage">> }

TransportFailures == { <<0, "NetErr">>, <<0, "ReadErr">> }

Outcomes == TransportFailures \cup Responses

\* sd.Req: the call type, the request data (the station or program IDs of a
\* batch) and, for a schedule request, the first day of the requested window.
Request(call, data, day) == [call |-> call, data |-> data, day |-> day]

NoReq == Request("none", <<>>, 0)

StatusReq == Request("status", <<>>, 0)

NoBody == [kind |-> "none", req |-> NoReq, att |-> 0]

\* The body of the response to attempt att of the request for req.
BodyOf(resp, req, att) == [kind |-> resp[2], req |-> req, att |-> att]

\* The call types whose case is written out in processResponse.
WrittenCalls == {"login", "status"}

\* The call types of the API methods that Init leaves out ("Initialize other
\* API methods...") and processResponse elides ("Add other cases...").
ElidedCalls == {"lineups", "schedule", "programs", "metadata"}

\* The elided cases of processResponse: each call type decodes its body and
\* reads its embedded code field.
processResponseElided(body) ==
    CASE body.kind = "garbage" -> "DecodeErr"
      [] body.kind = "errobj"  -> "ApiErr"
      [] OTHER                 -> "nil"

\* func (sd *SD) processResponse() error
processResponse(call, body) ==
    IF call \in WrittenCalls
    THEN CASE body.kind \in {"garbage", "badarray"} -> "DecodeErr"  \* json.Unmarshal fails
           [] body.kind = "errobj"                  -> "ApiErr"     \* sdStatus.Code != 0
           [] OTHER                                 -> "nil"
    ELSE IF call \in ElidedCalls
         THEN processResponseElided(body)
         ELSE "UnknownCall"

\* func isRetryableError(err error) bool.  errors.Is matches io.EOF and
\* io.ErrUnexpectedEOF.  For every other error errors.As(err, &httpErr) runs
\* with httpErr of type *http.Response, which is neither an interface nor an
\* error: errors.As panics ("*target must be interface or implement error"),
\* so no status code is ever compared.
isRetryableError(err) ==
    CASE err = "nil"                      -> "false"
      [] err \in {"EOF", "UnexpectedEOF"} -> "true"
      [] OTHER                            -> "panic"

IdleConn ==
    [pc |-> "idle", call |-> "none", req |-> NoReq, attempt |-> 0, lastErr |-> "nil",
     result |-> "none", taken |-> 0, sent |-> 0, body |-> NoBody, slept |-> <<>>,
     calls |-> 0, cancelledInWait |-> FALSE, sentAfterCancel |-> FALSE]

OffConn == [IdleConn EXCEPT !.pc = "off"]

\* A panic ends the process.
Crashed == orch.pc = "panic" \/ \E c \in Clients : conn[c].pc = "panic"

\* The caller sets sd.Req and calls sd.Connect(): attempt := 0, lastErr := nil.
ConnectEnter(cn, call, req) ==
    [cn EXCEPT !.pc = "wait", !.call = call, !.req = req, !.attempt = 0,
               !.lastErr = "nil", !.result = "none", !.taken = 0, !.sent = 0,
               !.slept = <<>>,
               !.calls = Min(MaxCalls, cn.calls + 1), !.cancelledInWait = FALSE,
               !.sentAfterCancel = FALSE]

\* Connect has returned and its caller has read the error: the locals of the
\* call are gone, sd.Resp.Body stays.
Returned(cn) == [IdleConn EXCEPT !.body = cn.body, !.calls = cn.calls]

\* A limiter whose Wait admits the caller and leaves the bucket as it was.
TakeTokenNone(t) == t

\* rateLimiter.Wait(context.Background()): one token is taken from the bucket.
TakeToken(t) == t - 1

\* Connect, top of the loop: rateLimiter.Wait(context.Background()) returns
\* once a token is there.  The context it is given is never cancelled.
ConnectWait(c) ==
    /\ ~Crashed
    /\ conn[c].pc = "wait"
    /\ tokens >= 1
    /\ tokens' = TakeToken(tokens)
    /\ conn' = [conn EXCEPT ![c].pc = "send", ![c].taken = @ + 1]
    /\ winSent' = Min(WindowSentCap, winSent + 1)
    /\ UNCHANGED <<ctxDone, script, winRefill>>

\* rateLimiter.Wait on an empty bucket: the caller sleeps until the next
\* refill (100 ms) and takes the token that it brings.
ConnectWaitBlocked(c) ==
    /\ ~Crashed
    /\ conn[c].pc = "wait"
    /\ tokens = 0
    /\ tokens' = TakeToken(Min(rateLimiterBurst, tokens + 1))
    /\ winRefill' = Min(RefillCap, winRefill + 1)
    /\ winSent' = Min(WindowSentCap, winSent + 1)
    /\ conn' = [conn EXCEPT ![c].pc = "send", ![c].taken = @ + 1]
    /\ UNCHANGED <<ctxDone, script>>

\* The state of the call after the request of this attempt met outcome o:
\* client.Do, io.ReadAll, sd.Resp.Body = body, processResponse,
\* isRetryableError.
AfterRequest(cn, o) ==
    LET sentCn == [cn EXCEPT !.sent = cn.sent + 1,
                             !.sentAfterCancel = cn.cancelledInWait]
    IN  IF o \in TransportFailures
        THEN [sentCn EXCEPT !.lastErr = o[2], !.pc = "sleep"]
        ELSE LET body == BodyOf(o, cn.req, cn.attempt + 1)
                 err  == processResponse(cn.call, body)
                 read == [sentCn EXCEPT !.body = body]
             IN  IF err = "nil"
                 THEN [read EXCEPT !.result = "ok", !.pc = "returned"]
                 ELSE CASE isRetryableError(err) = "true" ->
                             [read EXCEPT !.lastErr = err, !.pc = "sleep"]
                        [] isRetryableError(err) = "false" ->
                             [read EXCEPT !.lastErr = err, !.result = err,
                                          !.pc = "returned"]
                        [] OTHER ->
                             [read EXCEPT !.lastErr = err, !.pc = "panic"]

\* Connect, one attempt: the request is sent and answered with outcome o.
ConnectAttempt(c, o) ==
    /\ ~Crashed
    /\ conn[c].pc = "send"
    /\ conn' = [conn EXCEPT ![c] = AfterRequest(conn[c], o)]
    /\ UNCHANGED <<tokens, ctxDone, script, winSent, winRefill>>

\* for attempt := 0; attempt < maxRetries; attempt++: whether the loop runs
\* again after the attempt with index attempt.
LoopContinues(attempt) == attempt + 1 < maxRetries

\* Connect, after a failed attempt: time.Sleep(backoff(attempt)); attempt++;
\* the loop ends with errors.Wrap(lastErr, "all retry attempts failed").
\* The sleep lasts at least retryDelay: the bucket is full again after it.
ConnectSleep(c) ==
    /\ ~Crashed
    /\ conn[c].pc = "sleep"
    /\ conn' = [conn EXCEPT
                  ![c].slept = Append(@, backoff(conn[c].attempt)),
                  ![c].attempt = @ + 1,
                  ![c].pc = IF LoopContinues(conn[c].attempt) THEN "wait" ELSE "returned",
                  ![c].result = IF LoopContinues(conn[c].attempt) THEN @
                                ELSE "AllRetriesFailed"]
    /\ tokens' = rateLimiterBurst
    /\ winRefill' = Min(RefillCap, winRefill + RefillsPerRetryDelay)
    /\ UNCHANGED <<ctxDone, script, winSent>>

\* 100 ms pass: the limiter refills one token, up to its burst.  The window
\* counts the refill periods up to RefillCap.
Tick ==
    /\ tokens < rateLimiterBurst \/ winRefill < RefillCap
    /\ tokens' = Min(rateLimiterBurst, tokens + 1)
    /\ winRefill' = Min(RefillCap, winRefill + 1)
    /\ UNCHANGED <<ctxDone, conn, script, winSent>>

\* cancel(): main's signal handler cancels the context handed to Update.
Cancel ==
    /\ ~ctxDone
    /\ ctxDone' = TRUE
    /\ conn' = [c \in Clients |->
                  IF conn[c].pc = "wait" THEN [conn[c] EXCEPT !.cancelledInWait = TRUE]
                  ELSE conn[c]]
    /\ UNCHANGED <<tokens, script, winSent, winRefill>>

\* An observer opens a new window: the counts start again.
WindowOpen ==
    /\ winSent > 0 \/ winRefill > 0
    /\ winSent' = 0
    /\ winRefill' = 0
    /\ UNCHANGED <<tokens, ctxDone, conn, script>>

(***************************************************************************)
(* The cache store (cache.go).  A Go map is a function with a finite       *)
(* domain; a nil map reads as empty and panics when written.  Time is      *)
(* counted in days: the zero time.Time is day 0 and the clock starts at 1. *)
(***************************************************************************)
MapNames == {"Channel", "Program", "Metadata", "Schedule"}

EmptyMap == [k \in {} |-> 0]

Range(seq) == {seq[i] : i \in DOMAIN seq}

\* m[k] = v
Put(m, k, v) == [x \in DOMAIN m \cup {k} |-> IF x = k THEN v ELSE m[x]]

\* delete(m, k) for every k in ks
Without(m, ks) == [x \in DOMAIN m \ ks |-> m[x]]

\* Decoding a JSON object into a map: the keys of n are set, the others stay.
Overlay(m, n) == [x \in DOMAIN m \cup DOMAIN n |-> IF x \in DOMAIN n THEN n[x] ELSE m[x]]

\* const defaultCacheExpiration = 24 * time.Hour, in days
defaultCacheExpiration == 1

\* &cache{}: nil maps, zero expiration.
ZeroCache ==
    [Channel |-> EmptyMap, Program |-> EmptyMap, Metadata |-> EmptyMap,
     Schedule |-> EmptyMap, expiration |-> 0, nilMaps |-> MapNames]

\* func (c *cache) Init(), called at time t: the maps that are nil are made,
\* the others keep their entries; expiration = now + 24 h.
Init(c, t) == [c EXCEPT !.nilMaps = {}, !.expiration = t + defaultCacheExpiration]

\* Config.Station, the configured stations, and what the remote side holds:
\* the program each station airs and each program's originalAirDate ("old" is
\* more than a month before every day of the model, "" is absent).
StationList == <<"s1", "s2", "s3">>

ProgramIDs == {"A", "B", "C"}

RemoteProgramOf == [st \in Range(StationList) |->
                      CASE st = "s1" -> "A" [] st = "s2" -> "B" [] OTHER -> "C"]

RemoteOriginalAirDate == [p \in ProgramIDs |->
                            CASE p = "A" -> "old" [] p = "B" -> "recent" [] OTHER -> ""]

\* The slots of station st in a schedule requested on day: one programme
\* airing the day after.
RemoteSlots(st, day) == << [ProgramID |-> RemoteProgramOf[st], AirDateTime |-> day + 1] >>

\* An AddSchedule that stores a payload only while the Schedule map is empty.
AddScheduleIntoEmptyOnly(c, body) ==
    IF body.kind # "payload" \/ body.req.call # "schedule"
    THEN [c |-> c, err |-> "DecodeErr"]
    ELSE IF DOMAIN c.Schedule # {}
    THEN [c |-> c, err |-> "nil"]
    ELSE [c |-> [c EXCEPT !.Schedule = [st \in Range(body.req.data) |->
                                           RemoteSlots(st, body.req.day)]],
          err |-> "nil"]

\* A decoder of schedules that looks only at what was asked for.
DecodesWhenAsked(body) == body.req.call = "schedule"

\* json.Unmarshal(*data, &sdData) with sdData []SDSchedule succeeds on the
\* array that answers a schedule request.
DecodesAsSchedules(body) == body.kind = "payload" /\ body.req.call = "schedule"

\* func (c *cache) AddSchedule(ctx, data): a decode error returns before the
\* map is touched; otherwise the slots of every station of the payload are
\* appended to the station's list.
AddSchedule(c, body) ==
    IF ~DecodesAsSchedules(body)
    THEN [c |-> c, err |-> "DecodeErr"]
    ELSE IF body.req.data # <<>> /\ "Schedule" \in c.nilMaps
    THEN [c |-> c, err |-> "panic"]
    ELSE LET sts == Range(body.req.data)
             old(st) == IF st \in DOMAIN c.Schedule THEN c.Schedule[st] ELSE <<>>
         IN  [c |-> [c EXCEPT !.Schedule =
                        [st \in DOMAIN c.Schedule \cup sts |->
                            IF st \in sts
                            THEN old(st) \o RemoteSlots(st, body.req.day)
                            ELSE c.Schedule[st]]],
              err |-> "nil"]

\* gUnzip: the payload of a programs or metadata response is gzip; an error
\* object or a broken body is not.
gUnzip(body) == IF body.kind = "payload" THEN "nil" ELSE "GzipErr"

\* An AddProgram that decodes the payload and stores nothing.
AddProgramStoresNothing(c, body) ==
    [c |-> c, err |-> IF gUnzip(body) = "nil" THEN "nil" ELSE "GzipErr"]

\* The gzip payloads: the answers to the programs and the metadata calls, each
\* an array of objects that carry a programID.
GzipCalls == {"programs", "metadata"}

\* json.Unmarshal(b, &sdData) with sdData []SDProgram succeeds on an array of
\* objects: the fields that SDProgram does not name are skipped, so the
\* elements of a metadata array decode too, with every program field empty.
DecodesAsPrograms(body) == body.kind = "payload" /\ body.req.call \in GzipCalls

\* sd.OriginalAirDate of the element decoded for program ID p.
OriginalAirDateOf(body, p) ==
    IF body.req.call = "programs" THEN RemoteOriginalAirDate[p] ELSE ""

\* func (c *cache) AddProgram(ctx, gzip, wg), without its deferred wg.Done():
\* every element of the payload is stored under its programID.
AddProgram(c, body) ==
    IF gUnzip(body) # "nil"
    THEN [c |-> c, err |-> "GzipErr"]
    ELSE IF ~DecodesAsPrograms(body)
    THEN [c |-> c, err |-> "DecodeErr"]
    ELSE IF body.req.data # <<>> /\ "Program" \in c.nilMaps
    THEN [c |-> c, err |-> "panic"]
    ELSE [c |-> [c EXCEPT !.Program =
                    Overlay(@, [p \in Range(body.req.data) |->
                                  [OriginalAirDate |-> OriginalAirDateOf(body, p)]])],
          err |-> "nil"]

\* json.Unmarshal(b, &tmp) with tmp []interface{} succeeds on every array.
DecodesAsMetadata(body) == body.kind = "payload" /\ body.req.call \in GzipCalls

\* The element that the remote side puts into a metadata array for a program
\* ID: the record {programID, data: [...]} for the programs it knows; for
\* "E1" an error object with its fields under data, {programID, data: {code,
\* message, ...}}, the layout of SDError; for "E2" an error object with its
\* fields at the top, {code, message, programID}.
ErrorProgramIDs == {"E1", "E2"}

RemoteMetadataElement(p) ==
    CASE p = "E1" -> "errNested"
      [] p = "E2" -> "errFlat"
      [] OTHER    -> "record"

\* The element of the array in body for program ID p: an element of a
\* programs array is a program object, which has no data field.
ElementOf(body, p) ==
    IF body.req.call = "metadata" THEN RemoteMetadataElement(p) ELSE "program"

\* json.Unmarshal(jsonByte, &sdData) with sdData SDMetadata{Data []Data
\* `json:"data"`; ProgramID string}: an object whose data is an array decodes;
\* one whose data is an object does not; one with no data field decodes, its
\* unknown fields skipped, its Data left nil.
DecodesAsSDMetadata(shape) == shape \in {"record", "errFlat", "program"}

\* sdData.Data of a decoded element.
MetadataDataOf(shape) == IF shape = "record" THEN "meta" ELSE "nil"

\* func (c *cache) AddMetadata(ctx, gzip, wg), without its deferred wg.Done():
\* every element that decodes as SDMetadata is stored under its programID,
\* the others are passed over.
AddMetadata(c, body) ==
    IF gUnzip(body) # "nil"
    THEN [c |-> c, err |-> "GzipErr"]
    ELSE IF ~DecodesAsMetadata(body)
    THEN [c |-> c, err |-> "DecodeErr"]
    ELSE LET stored == {p \in Range(body.req.data) :
                           DecodesAsSDMetadata(ElementOf(body, p))}
         IN  IF stored # {} /\ "Metadata" \in c.nilMaps
             THEN [c |-> c, err |-> "panic"]
             ELSE [c |-> [c EXCEPT !.Metadata =
                             Overlay(@, [p \in stored |->
                                           [Data |-> MetadataDataOf(ElementOf(body, p))]])],
                   err |-> "nil"]

\* The stations that the remote side lists for a lineup; "s9" is not configured.
RemoteLineupStations == {"s1", "s2", "s3", "s9"}

\* Config.Station[i].Lineup: the lineup each configured station was selected in.
StationLineup == [st \in Range(StationList) |-> IF st = "s3" THEN "L2" ELSE "L1"]

\* func (c *config) GetChannelList(lineup string) (list []string): the IDs of
\* the configured stations of the lineup, of all of them for the empty lineup.
GetChannelList(lineup) ==
    LET Selected(st) == lineup = "" \/ StationLineup[st] = lineup
    IN  SelectSeq(StationList, Selected)

\* ContainsString(slice, e): the index of e in the slice, -1 if it is absent.
ContainsString(slice, e) ==
    IF \E i \in DOMAIN slice : slice[i] = e
    THEN (CHOOSE i \in DOMAIN slice :
             slice[i] = e /\ \A j \in DOMAIN slice : slice[j] = e => i <= j) - 1
    ELSE -1

\* An AddStations that stores every station of the payload.
AddStationsUnfiltered(c, body) ==
    IF body.kind # "payload" \/ body.req.call # "lineups"
    THEN [c |-> c, err |-> "DecodeErr"]
    ELSE [c |-> [c EXCEPT !.Channel =
                    Overlay(@, [st \in RemoteLineupStations |-> [StationID |-> st]])],
          err |-> "nil"]

\* json.Unmarshal(*data, &sdData) with sdData SDStation, a struct: the lineup
\* document decodes, and so does any other JSON object, an error object
\* included, whose unknown fields are skipped; an array or a body that is no
\* JSON does not.
DecodesAsStations(body) ==
    \/ body.kind = "payload" /\ body.req.call = "lineups"
    \/ body.kind = "errobj"

\* sdData.Stations: the stations of the decoded document.
StationsOf(body) == IF body.kind = "payload" THEN RemoteLineupStations ELSE {}

\* func (c *cache) AddStations(ctx, data, lineup): the stations of the payload
\* that are in the channel list of the lineup are stored under their ID.
AddStations(c, body) ==
    IF ~DecodesAsStations(body)
    THEN [c |-> c, err |-> "DecodeErr"]
    ELSE LET lineup == IF body.req.data = <<>> THEN "" ELSE body.req.data[1]
             channelIDs == GetChannelList(lineup)
             added == {st \in StationsOf(body) : ContainsString(channelIDs, st) # -1}
         IN  IF added # {} /\ "Channel" \in c.nilMaps
             THEN [c |-> c, err |-> "panic"]
             ELSE [c |-> [c EXCEPT !.Channel =
                             Overlay(@, [st \in added |-> [StationID |-> st]])],
                   err |-> "nil"]

\* The JSON document of the store: the four exported maps (a nil map is
\* written as null); expiration and stats are unexported and left out.
Snapshot(c) ==
    [exists |-> TRUE, torn |-> FALSE, Channel |-> c.Channel, Program |-> c.Program,
     Metadata |-> c.Metadata, Schedule |-> c.Schedule, nilMaps |-> c.nilMaps]

NoFile ==
    [exists |-> FALSE, torn |-> FALSE, Channel |-> EmptyMap, Program |-> EmptyMap,
     Metadata |-> EmptyMap, Schedule |-> EmptyMap, nilMaps |-> MapNames]

\* A file that holds only a part of the document.
Torn(doc) == [doc EXCEPT !.torn = TRUE]

\* os.WriteFile(name, data, 0644) on a file that holds old: the file is
\* created or truncated and the data written ("ok"); the open fails and the
\* file is as it was ("denied"); the write fails after the truncation and a
\* part of the data is in the file ("short").
WriteOutcomes == {"ok", "denied", "short"}

WriteFile(old, data, outcome) ==
    CASE outcome = "ok"     -> [file |-> data, err |-> "nil"]
      [] outcome = "denied" -> [file |-> old, err |-> "WriteErr"]
      [] OTHER              -> [file |-> Torn(data), err |-> "WriteErr"]

\* A rename that, when it fails, leaves a part of the source in the target.
RenameTearsTarget(src, dst, ok) ==
    IF ok
    THEN [src |-> NoFile, dst |-> src, err |-> "nil"]
    ELSE [src |-> src, dst |-> Torn(src), err |-> "RenameErr"]

\* os.Rename(oldpath, newpath) within one directory: the target is replaced
\* in one step and the source is gone, or nothing changes.
Rename(src, dst, ok) ==
    IF ok
    THEN [src |-> NoFile, dst |-> src, err |-> "nil"]
    ELSE [src |-> src, dst |-> dst, err |-> "RenameErr"]

\* func (c *cache) Save() when every step succeeds: marshal, write the
\* temporary file, rename it to the cache file.
Save(c) == Rename(WriteFile(NoFile, Snapshot(c), "ok").file, NoFile, TRUE).dst

\* An Open that reads the document and sets nothing.
UnmarshalNothing(c, f) == c

\* json.Unmarshal(data, c) into the live store: a map that the document
\* gives as null is set to nil; otherwise the map is made if nil, the keys of
\* the document are set and the keys it lacks stay.  expiration is untouched.
Unmarshal(c, f) ==
    [c EXCEPT !.Channel = IF "Channel" \in f.nilMaps THEN EmptyMap ELSE Overlay(@, f.Channel),
              !.Program = IF "Program" \in f.nilMaps THEN EmptyMap ELSE Overlay(@, f.Program),
              !.Metadata = IF "Metadata" \in f.nilMaps THEN EmptyMap ELSE Overlay(@, f.Metadata),
              !.Schedule = IF "Schedule" \in f.nilMaps THEN EmptyMap ELSE Overlay(@, f.Schedule),
              !.nilMaps = f.nilMaps]

\* func (c *cache) Open() at time t, the lock taken.  With no file, and with
\* a store whose expiration has passed, it calls c.Init(), which waits for the
\* lock that Open holds: stuck.  A document that is cut short
\* fails the syntax check of json.Unmarshal before anything is set.  Otherwise
\* the document is merged in.
Open(c, f, t) ==
    IF ~f.exists
    THEN [c |-> c, err |-> "nil", stuck |-> TRUE]
    ELSE IF f.torn
    THEN [c |-> c, err |-> "DecodeErr", stuck |-> FALSE]
    ELSE LET merged == Unmarshal(c, f)
         IN  [c |-> merged, err |-> "nil", stuck |-> t > merged.expiration]

\* A CleanUp that also keeps the slots that air at t.
CleanUpKeepsDue(c, t) ==
    LET Airs(slot) == slot.AirDateTime >= t
        kept == {st \in DOMAIN c.Schedule : SelectSeq(c.Schedule[st], Airs) # <<>>}
    IN  [c EXCEPT !.Schedule = [st \in kept |-> SelectSeq(c.Schedule[st], Airs)]]

\* func (c *cache) CleanUp() at time t: the slots that air after t stay, a
\* station left without slots is deleted; a program whose originalAirDate
\* parses and is more than a month before t is deleted.
CleanUp(c, t) ==
    LET Airs(slot) == slot.AirDateTime > t
        kept == {st \in DOMAIN c.Schedule : SelectSeq(c.Schedule[st], Airs) # <<>>}
        stale == {p \in DOMAIN c.Program : c.Program[p].OriginalAirDate = "old"}
    IN  [c EXCEPT !.Schedule = [st \in kept |-> SelectSeq(c.Schedule[st], Airs)],
                  !.Program = Without(@, stale)]

\* The program IDs that the slots of the Schedule map name.
ReferencedProgramIDs(c) ==
    UNION {{c.Schedule[st][i].ProgramID : i \in DOMAIN c.Schedule[st]} : st \in DOMAIN c.Schedule}

ProgramOrder == <<"A", "B", "C">>

\* A set of program IDs as a slice.
AsSlice(ids) == LET In(p) == p \in ids IN SelectSeq(ProgramOrder, In)

\* Cache.GetRequiredProgramIDs(): the referenced IDs that are no key of the
\* Program map.
GetRequiredProgramIDs(c) == AsSlice(ReferencedProgramIDs(c) \ DOMAIN c.Program)

\* Cache.GetRequiredMetaIDs(): the referenced IDs that are no key of the
\* Metadata map.
GetRequiredMetaIDs(c) == AsSlice(ReferencedProgramIDs(c) \ DOMAIN c.Metadata)

StoreIdle ==
    /\ cache = ZeroCache
    /\ file = NoFile
    /\ tmp = NoFile
    /\ mu = "free"
    /\ now = 1

(***************************************************************************)
(* The orchestrator (data.go).  Client "c1" is the SD value of the run:    *)
(* conn["c1"].body is sd.Resp.Body, which every merge goroutine of the run *)
(* reads through a pointer when it runs, not when it is started.           *)
(***************************************************************************)
\* const batchSize = 5000 and metadataBatchSize = 500, scaled to the three
\* stations and three programs of the model.
batchSize == 1

metadataBatchSize == 2

\* list[i:end] with end = min(i + size, len(list)); i counts from 0.
Batch(list, i, size) == SubSeq(list, i + 1, Min(i + size, Len(list)))

\* A script counts as a fault of the remote side unless its first answer is
\* the payload.
FaultsOf(s) == IF s[1] = <<200, "payload">> THEN 0 ELSE 1

IdleOrch ==
    [pc |-> "off", run |-> 0, i |-> 0, t |-> "none", ids |-> <<>>, result |-> "none",
     errFrom |-> 0, plan |-> <<>>, okCalls |-> 0, faults |-> 0, token |-> FALSE,
     startKeys |-> {}, startRefs |-> {},
     requested |-> {}, prevSaved |-> {}, refetched |-> {}, merged |-> {}]

NewChan == [buf |-> <<>>, closed |-> FALSE, first |-> 0]

OrchIdle ==
    /\ orch = IdleOrch
    /\ tasks = <<>>
    /\ wg = 0
    /\ errChan = NewChan

\* go func() { ... }(): a goroutine that has not yet run.  read is what
\* sd.Resp.Body holds when the goroutine's merge dereferences the pointer
\* &sd.Resp.Body that it was given.
NewTask(kind, batch) ==
    [kind |-> kind, batch |-> batch, state |-> "ready", err |-> "nil", orphan |-> FALSE,
     read |-> NoBody]

\* The goroutines that are still running when the next phase makes its own
\* WaitGroup and channel keep those of their phase: a WaitGroup whose Wait
\* has returned, hence at zero, and a channel that has been closed.
Orphans(ts) ==
    LET Live(tk) == tk.state # "done"
        left == SelectSeq(ts, Live)
    IN  [k \in DOMAIN left |-> [left[k] EXCEPT !.orphan = TRUE]]

\* processSchedules is entered: var wg sync.WaitGroup; errChan := make(chan error, 1).
EnterSchedules(o) ==
    [o EXCEPT !.pc = "sched_loop", !.i = 0, !.result = "none", !.errFrom = 0,
              !.plan = <<>>, !.okCalls = 0]

\* case <-ctx.Done(): return ctx.Err()
SchedCancelled ==
    /\ ~Crashed
    /\ orch.pc = "sched_loop"
    /\ ctxDone
    /\ orch' = [orch EXCEPT !.pc = "sched_ret", !.result = "Cancelled"]
    /\ UNCHANGED <<tasks, wg, errChan, storeVars, clientVars>>

\* default: the batch Config.Station[i:end] is marshalled into sd.Req.Data and
\* sd.Schedule() is called; s is what the remote side will answer.
SchedRequest(s) ==
    /\ ~Crashed
    /\ orch.pc = "sched_loop"
    /\ ~ctxDone
    /\ orch.i < Len(StationList)
    /\ conn["c1"].pc = "idle"
    /\ conn' = [conn EXCEPT !["c1"] =
                   ConnectEnter(@, "schedule",
                                Request("schedule", Batch(StationList, orch.i, batchSize), now))]
    /\ script' = [script EXCEPT !["c1"] = s]
    /\ orch' = [orch EXCEPT !.pc = "sched_call", !.plan = Append(@, s),
                            !.faults = @ + FaultsOf(s)]
    /\ UNCHANGED <<tasks, wg, errChan, storeVars, tokens, ctxDone, winSent, winRefill>>

\* sd.Schedule() returned nil: wg.Add(1); go func() {...}(); i += batchSize.
SchedDispatch ==
    /\ ~Crashed
    /\ orch.pc = "sched_call"
    /\ conn["c1"].pc = "returned"
    /\ conn["c1"].result = "ok"
    /\ wg' = wg + 1
    /\ tasks' = Append(tasks, NewTask("schedule", Len(orch.plan)))
    /\ orch' = [orch EXCEPT !.pc = "sched_loop", !.i = @ + batchSize, !.okCalls = @ + 1]
    /\ conn' = [conn EXCEPT !["c1"] = Returned(@)]
    /\ script' = [script EXCEPT !["c1"] = <<>>]
    /\ UNCHANGED <<errChan, storeVars, tokens, ctxDone, winSent, winRefill>>

\* A failed sd.Schedule() that makes processSchedules return the error.
SchedSkipReturns ==
    /\ ~Crashed
    /\ orch.pc = "sched_call"
    /\ conn["c1"].pc = "returned"
    /\ conn["c1"].result # "ok"
    /\ orch' = [orch EXCEPT !.pc = "sched_ret", !.result = "FetchErr"]
    /\ conn' = [conn EXCEPT !["c1"] = Returned(@)]
    /\ script' = [script EXCEPT !["c1"] = <<>>]
    /\ UNCHANGED <<tasks, wg, errChan, storeVars, tokens, ctxDone, winSent, winRefill>>

\* sd.Schedule() returned an error: it is logged; continue; i += batchSize.
SchedSkip ==
    /\ ~Crashed
    /\ orch.pc = "sched_call"
    /\ conn["c1"].pc = "returned"
    /\ conn["c1"].result # "ok"
    /\ orch' = [orch EXCEPT !.pc = "sched_loop", !.i = @ + batchSize]
    /\ conn' = [conn EXCEPT !["c1"] = Returned(@)]
    /\ script' = [script EXCEPT !["c1"] = <<>>]
    /\ UNCHANGED <<tasks, wg, errChan, storeVars, tokens, ctxDone, winSent, winRefill>>

\* The loop condition i < len(Config.Station) fails.
SchedLoopEnd ==
    /\ ~Crashed
    /\ orch.pc = "sched_loop"
    /\ ~ctxDone
    /\ orch.i >= Len(StationList)
    /\ orch' = [orch EXCEPT !.pc = "sched_wait"]
    /\ UNCHANGED <<tasks, wg, errChan, storeVars, clientVars>>

\* A Wait that returns whatever the counter is.
WaitReleasedAlways(n) == TRUE

\* wg.Wait() returns when the counter is zero.
WaitReleased(n) == n = 0

\* wg.Wait(); close(errChan)
SchedJoin ==
    /\ ~Crashed
    /\ orch.pc = "sched_wait"
    /\ WaitReleased(wg)
    /\ errChan' = [errChan EXCEPT !.closed = TRUE]
    /\ orch' = [orch EXCEPT !.pc = "sched_recv"]
    /\ UNCHANGED <<tasks, wg, storeVars, clientVars>>

\* err := <-errChan: the buffered error, or nil from the closed channel; the
\* receive waits while the channel is open and empty.
SchedReturn ==
    /\ ~Crashed
    /\ orch.pc = "sched_recv"
    /\ errChan.closed \/ errChan.buf # <<>>
    /\ orch' = [orch EXCEPT !.pc = "sched_ret",
                            !.result = IF errChan.buf # <<>> THEN "MergeErr" ELSE "nil",
                            !.errFrom = IF errChan.buf # <<>> THEN Head(errChan.buf) ELSE 0]
    /\ errChan' = [errChan EXCEPT !.buf = <<>>]
    /\ UNCHANGED <<tasks, wg, storeVars, clientVars>>

\* Cache.AddSchedule / AddProgram / AddMetadata as the goroutine calls it, on
\* the bytes that sd.Resp.Body holds at that moment.
MergeOf(kind, c, body) ==
    CASE kind = "schedule" -> AddSchedule(c, body)
      [] kind = "programs" -> AddProgram(c, body)
      [] OTHER             -> AddMetadata(c, body)

\* The merge operation that the orchestrator applies to the answer of a call.
MergeFor(call, c, body) ==
    IF call = "lineups" THEN AddStations(c, body) ELSE MergeOf(call, c, body)

\* AddProgram and AddMetadata start with defer wg.Done(); AddSchedule does not.
DonesInMerge(kind) == IF kind = "schedule" THEN 0 ELSE 1

\* wg.Done() below zero panics ("sync: negative WaitGroup counter").
DoneUnderflows(n, dones) == n - dones < 0

\* The counter of the WaitGroup that the goroutine of task tk holds.
CounterOf(tk) == IF tk.orphan THEN 0 ELSE wg

\* The channel of task tk's phase has been closed.
ChanClosedFor(tk) == tk.orphan \/ errChan.closed

\* The program IDs of the payload that a successful AddProgram has merged.
MergedPrograms(kind, body, err) ==
    IF kind = "programs" /\ err = "nil" THEN Range(body.req.data) ELSE {}

\* A panic in a goroutine ends the process: its memory is gone, the cache
\* file stays.
ProcessDies(why) ==
    /\ orch' = [IdleOrch EXCEPT !.pc = "panic", !.result = why]
    /\ tasks' = <<>>
    /\ wg' = 0
    /\ errChan' = NewChan
    /\ cache' = ZeroCache
    /\ conn' = [c \in Clients |-> OffConn]
    /\ script' = [c \in Clients |-> <<>>]

\* The goroutine of task k runs its merge under the store's lock.  A write to
\* a nil map panics, and so does a wg.Done() below zero.
TaskMerge(k) ==
    /\ ~Crashed
    /\ k \in DOMAIN tasks
    /\ tasks[k].state = "ready"
    /\ mu = "free"
    /\ LET r == MergeOf(tasks[k].kind, cache, conn["c1"].body)
           dones == DonesInMerge(tasks[k].kind)
       IN  IF r.err = "panic"
           THEN ProcessDies("NilMap")
           ELSE IF DoneUnderflows(CounterOf(tasks[k]), dones)
           THEN ProcessDies("NegativeCounter")
           ELSE /\ cache' = r.c
                /\ tasks' = [tasks EXCEPT ![k].state = "merged", ![k].err = r.err,
                                          ![k].read = conn["c1"].body]
                /\ wg' = wg - dones
                /\ orch' = [orch EXCEPT !.merged =
                               @ \cup MergedPrograms(tasks[k].kind, conn["c1"].body, r.err)]
                /\ UNCHANGED <<errChan, conn, script>>
    /\ UNCHANGED <<file, tmp, mu, now, tokens, ctxDone, winSent, winRefill>>

\* select { case errChan <- err: default: } - the error is buffered when the
\* buffer is free and dropped otherwise; a send on a closed channel panics.
SendError(ch, batch) ==
    IF Len(ch.buf) < 1
    THEN [ch EXCEPT !.buf = Append(@, batch), !.first = IF @ = 0 THEN batch ELSE @]
    ELSE ch

\* The goroutine of task k reports its error, if any, and runs its deferred
\* wg.Done().
TaskFinish(k) ==
    /\ ~Crashed
    /\ k \in DOMAIN tasks
    /\ tasks[k].state = "merged"
    /\ IF tasks[k].err # "nil" /\ ChanClosedFor(tasks[k])
       THEN ProcessDies("SendOnClosedChannel")
       ELSE IF DoneUnderflows(CounterOf(tasks[k]), 1)
       THEN ProcessDies("NegativeCounter")
       ELSE /\ errChan' = IF tasks[k].err # "nil"
                          THEN SendError(errChan, tasks[k].batch)
                          ELSE errChan
            /\ wg' = wg - 1
            /\ tasks' = [tasks EXCEPT ![k].state = "done"]
            /\ UNCHANGED <<orch, cache, conn, script>>
    /\ UNCHANGED <<file, tmp, mu, now, tokens, ctxDone, winSent, winRefill>>

(***************************************************************************)
(* SpecBackoff: backoff applied to the attempt indices 0 .. MaxAttemptIdx.  *)
(***************************************************************************)
MaxAttemptIdx == 70

\* Not a duration: no word has bit -1.
NoDelay == {-1}

\* No pure function is under test.
NoCall == [fn |-> "none"]

\* The goroutines that the /run handler starts (go func() { sd.Update(...) }).
Runs == {"r1", "r2"}

\* A goroutine that has not been started.
OffRun == [pc |-> 0, at |-> "off"]

NoRuns == [r \in Runs |-> OffRun]

BackoffIdle ==
    /\ bAttempt = 0
    /\ bDelay = NoDelay
    /\ fnCall = NoCall
    /\ runs = NoRuns

ClientIdle ==
    /\ tokens = rateLimiterBurst
    /\ ctxDone = FALSE
    /\ conn = [c \in Clients |-> OffConn]
    /\ script = [c \in Clients |-> <<>>]
    /\ winSent = 0
    /\ winRefill = 0

BackoffInit ==
    /\ BackoffIdle
    /\ ClientIdle
    /\ StoreIdle
    /\ OrchIdle

\* time.Sleep(backoff(attempt)) evaluates backoff for the current index.
BackoffCall ==
    /\ bDelay = NoDelay
    /\ bDelay' = backoff(bAttempt)
    /\ UNCHANGED <<bAttempt, fnCall, runs, clientVars, storeVars, orchVars>>

\* attempt++ of the retry loop.
BackoffNextAttempt ==
    /\ bDelay # NoDelay
    /\ bAttempt < MaxAttemptIdx
    /\ bAttempt' = bAttempt + 1
    /\ bDelay' = NoDelay
    /\ UNCHANGED <<fnCall, runs, clientVars, storeVars, orchVars>>

BackoffNext == BackoffCall \/ BackoffNextAttempt

SpecBackoff == BackoffInit /\ [][BackoffNext]_vars

(***************************************************************************)
(* SpecConnect: one client calls sd.Status(), hence Connect, once, against *)
(* a remote side whose answers to the attempts are fixed when the call     *)
(* starts.                                                                 *)
(***************************************************************************)
Scripts == [1 .. maxRetries -> Outcomes]

\* sd.Status(): sd.Req.Call = "status"; sd.Connect().
StatusCall(c, s) ==
    /\ ~Crashed
    /\ conn[c].pc = "idle"
    /\ conn[c].calls < MaxCalls
    /\ conn' = [conn EXCEPT ![c] = ConnectEnter(conn[c], "status", StatusReq)]
    /\ script' = [script EXCEPT ![c] = s]
    /\ UNCHANGED <<tokens, ctxDone, winSent, winRefill>>

\* Connect has returned to sd.Status, which returns to its caller.
StatusReturn(c) ==
    /\ ~Crashed
    /\ conn[c].pc = "returned"
    /\ conn' = [conn EXCEPT ![c].pc = "idle"]
    /\ UNCHANGED <<tokens, ctxDone, script, winSent, winRefill>>

ConnectInit ==
    /\ BackoffIdle
    /\ tokens = rateLimiterBurst
    /\ ctxDone = FALSE
    /\ conn = [c \in Clients |-> IF c = "c1" THEN IdleConn ELSE OffConn]
    /\ script = [c \in Clients |-> <<>>]
    /\ winSent = 0
    /\ winRefill = 0
    /\ StoreIdle
    /\ OrchIdle

ScriptedAttempt(c) ==
    /\ script[c] # <<>>
    /\ ConnectAttempt(c, script[c][conn[c].attempt + 1])

ConnectNext ==
    \/ \E c \in Clients, s \in Scripts : StatusCall(c, s) /\ UNCHANGED nonClientVars
    \/ \E c \in Clients : ConnectWait(c) /\ UNCHANGED nonClientVars
    \/ \E c \in Clients : ScriptedAttempt(c) /\ UNCHANGED nonClientVars
    \/ \E c \in Clients : ConnectSleep(c) /\ UNCHANGED nonClientVars

SpecConnect == ConnectInit /\ [][ConnectNext]_vars

(***************************************************************************)
(* SpecLimiter: two clients (two runs started through /run, each with its  *)
(* own SD value) call Connect; the limiter is the one package variable.    *)
(***************************************************************************)
LimiterOutcomes == { <<0, "NetErr">>, <<200, "payload">> }

LimiterInit ==
    /\ BackoffIdle
    /\ tokens = rateLimiterBurst
    /\ ctxDone = FALSE
    /\ conn = [c \in Clients |-> IdleConn]
    /\ script = [c \in Clients |-> <<>>]
    /\ winSent = 0
    /\ winRefill = 0
    /\ StoreIdle
    /\ OrchIdle

FreeAttempt(c, o) ==
    /\ script[c] = <<>>
    /\ ConnectAttempt(c, o)

LimiterNext ==
    \/ \E c \in Clients : StatusCall(c, <<>>) /\ UNCHANGED nonClientVars
    \/ \E c \in Clients : ConnectWait(c) /\ UNCHANGED nonClientVars
    \/ \E c \in Clients, o \in LimiterOutcomes : FreeAttempt(c, o) /\ UNCHANGED nonClientVars
    \/ \E c \in Clients : ConnectSleep(c) /\ UNCHANGED nonClientVars
    \/ \E c \in Clients : StatusReturn(c) /\ UNCHANGED nonClientVars
    \/ Tick /\ UNCHANGED nonClientVars
    \/ Cancel /\ UNCHANGED nonClientVars
    \/ WindowOpen /\ UNCHANGED nonClientVars

SpecLimiter == LimiterInit /\ [][LimiterNext]_vars

(***************************************************************************)
(* SpecSched: processSchedules on an initialised store, three batches, the *)
(* remote side answering each batch by one of SchedScripts; the caller may *)
(* cancel.                                                                 *)
(***************************************************************************)
OkAnswer == <<200, "payload">>

OkScript == <<OkAnswer, OkAnswer, OkAnswer>>

\* The connection fails once, then the request is answered.
RetryNet == << <<0, "NetErr">>, OkAnswer, OkAnswer >>

\* The remote side rejects the first attempt with 503, then answers.
Retry503 == << <<503, "errobj">>, OkAnswer, OkAnswer >>

\* The answer passes the client and is no array of schedules.
BadArray == << <<200, "badarray">>, <<200, "badarray">>, <<200, "badarray">> >>

\* The connection fails on every attempt.
NetDown == << <<0, "NetErr">>, <<0, "NetErr">>, <<0, "NetErr">> >>

SchedScripts == {OkScript, RetryNet, Retry503, BadArray, NetDown}

SchedInit ==
    /\ BackoffIdle
    /\ tokens = rateLimiterBurst
    /\ ctxDone = FALSE
    /\ conn = [c \in Clients |-> IF c = "c1" THEN IdleConn ELSE OffConn]
    /\ script = [c \in Clients |-> <<>>]
    /\ winSent = 0
    /\ winRefill = 0
    /\ cache = Init(ZeroCache, 1)
    /\ file = NoFile
    /\ tmp = NoFile
    /\ mu = "free"
    /\ now = 1
    /\ orch = EnterSchedules(IdleOrch)
    /\ tasks = <<>>
    /\ wg = 0
    /\ errChan = NewChan

SchedNext ==
    \/ SchedCancelled /\ UNCHANGED pureVars
    \/ \E s \in SchedScripts : SchedRequest(s) /\ UNCHANGED pureVars
    \/ ConnectWait("c1") /\ UNCHANGED nonClientVars
    \/ ScriptedAttempt("c1") /\ UNCHANGED nonClientVars
    \/ ConnectSleep("c1") /\ UNCHANGED nonClientVars
    \/ ConnectWaitBlocked("c1") /\ UNCHANGED nonClientVars
    \/ SchedDispatch /\ UNCHANGED pureVars
    \/ SchedSkip /\ UNCHANGED pureVars
    \/ SchedLoopEnd /\ UNCHANGED pureVars
    \/ \E k \in DOMAIN tasks : TaskMerge(k) /\ UNCHANGED pureVars
    \/ \E k \in DOMAIN tasks : TaskFinish(k) /\ UNCHANGED pureVars
    \/ SchedJoin /\ UNCHANGED pureVars
    \/ SchedReturn /\ UNCHANGED pureVars
    \/ Cancel /\ UNCHANGED nonClientVars

SpecSched == SchedInit /\ [][SchedNext]_vars

(***************************************************************************)
(* Spec: the whole pipeline.  The store starts as &cache{} with no cache   *)
(* file; before the first Update the embedding program may call            *)
(* Cache.Init() and Cache.Save() (as cache_test.go does); then Update runs *)
(* up to MaxRuns times in the one process, days passing between the runs.  *)
(***************************************************************************)
MaxRuns == 2

MaxNow == 3

\* The requests of an execution that the remote side fails.
MaxFaults == 1

\* What the remote side answers to a request of the pipeline: the payload, or
\* while faults are left, no connection.
PipeScripts == IF orch.faults < MaxFaults THEN {OkScript, NetDown} ELSE {OkScript}

\* sd.Req is set and the API method calls sd.Connect().
StartConnect(call, req, s) ==
    /\ conn["c1"].pc = "idle"
    /\ conn' = [conn EXCEPT !["c1"] = ConnectEnter(@, call, req)]
    /\ script' = [script EXCEPT !["c1"] = s]
    /\ UNCHANGED <<tokens, ctxDone, winSent, winRefill>>

\* sd.Connect() has returned to the API method, which returns its error.
FinishConnect ==
    /\ conn["c1"].pc = "returned"
    /\ conn' = [conn EXCEPT !["c1"] = Returned(@)]
    /\ script' = [script EXCEPT !["c1"] = <<>>]
    /\ UNCHANGED <<tokens, ctxDone, winSent, winRefill>>

\* Update returns err to its caller; the locals of the run are gone.
UpdateReturns(o, err) ==
    [o EXCEPT !.pc = "idle", !.result = err, !.i = 0, !.t = "none", !.ids = <<>>,
              !.errFrom = 0, !.plan = <<>>, !.okCalls = 0, !.startKeys = {},
              !.startRefs = {}, !.requested = {}]

\* Cache.Init() by the embedding program before the first run.
StoreInit ==
    /\ ~Crashed
    /\ orch.pc = "idle"
    /\ orch.run = 0
    /\ mu = "free"
    /\ cache.expiration = 0
    /\ cache' = Init(cache, now)
    /\ UNCHANGED <<file, tmp, mu, now, orchVars, clientVars>>

\* Cache.Save() by the embedding program before the first run.
StoreSave ==
    /\ ~Crashed
    /\ orch.pc = "idle"
    /\ orch.run = 0
    /\ mu = "free"
    /\ ~file.exists
    /\ file' = Save(cache)
    /\ UNCHANGED <<cache, tmp, mu, now, orchVars, clientVars>>

\* A day passes between two runs.
Advance ==
    /\ ~Crashed
    /\ orch.pc = "idle"
    /\ orch.run >= 1
    /\ now < MaxNow
    /\ now' = now + 1
    /\ UNCHANGED <<cache, file, tmp, mu, orchVars, clientVars>>

\* func (app *App) Update: len(sd.Token) == 0, so sd.Login() is called.
UpdateLogin(s) ==
    /\ ~Crashed
    /\ orch.pc = "idle"
    /\ orch.run < MaxRuns
    /\ ~orch.token
    /\ StartConnect("login", Request("login", <<>>, 0), s)
    /\ orch' = [orch EXCEPT !.pc = "login_call", !.run = @ + 1, !.result = "none",
                            !.requested = {}, !.faults = @ + FaultsOf(s)]
    /\ UNCHANGED <<tasks, wg, errChan, storeVars>>

\* An Update that goes on to GetData whatever Login returns.
LoginDoneIgnoresError ==
    /\ ~Crashed
    /\ orch.pc = "login_call"
    /\ FinishConnect
    /\ orch' = [orch EXCEPT !.pc = "open", !.token = conn["c1"].result = "ok"]
    /\ UNCHANGED <<tasks, wg, errChan, storeVars>>

\* sd.Login() has returned: the token is kept, or Update returns the error.
LoginDone ==
    /\ ~Crashed
    /\ orch.pc = "login_call"
    /\ FinishConnect
    /\ orch' = IF conn["c1"].result = "ok"
               THEN [orch EXCEPT !.pc = "open", !.token = TRUE]
               ELSE UpdateReturns(orch, "LoginErr")
    /\ UNCHANGED <<tasks, wg, errChan, storeVars>>

\* func (app *App) Update with the token of an earlier run: sd.GetData(ctx).
UpdateStart ==
    /\ ~Crashed
    /\ orch.pc = "idle"
    /\ orch.run < MaxRuns
    /\ orch.token
    /\ orch' = [orch EXCEPT !.pc = "open", !.run = @ + 1, !.result = "none",
                            !.requested = {}]
    /\ UNCHANGED <<tasks, wg, errChan, storeVars, clientVars>>

\* Cache.Open() in GetData ("open") and in CreateXMLTV ("xml_open").  When
\* Open calls c.Init() the lock is never released and the caller never returns.
CacheOpen ==
    /\ ~Crashed
    /\ orch.pc \in {"open", "xml_open"}
    /\ mu = "free"
    /\ LET r == Open(cache, file, now)
       IN  /\ cache' = r.c
           /\ mu' = IF r.stuck THEN "stuck" ELSE "free"
           /\ orch' = [orch EXCEPT !.pc = IF r.stuck THEN "hung"
                                          ELSE IF @ = "open" THEN "init" ELSE "xml_init"]
    /\ UNCHANGED <<file, tmp, now, tasks, wg, errChan, clientVars>>

\* Cache.Init() in GetData.
GetDataInit ==
    /\ ~Crashed
    /\ orch.pc = "init"
    /\ mu = "free"
    /\ cache' = Init(cache, now)
    /\ orch' = [orch EXCEPT !.pc = "status_req"]
    /\ UNCHANGED <<file, tmp, mu, now, tasks, wg, errChan, clientVars>>

\* sd.Status() in GetData.
GetDataStatus(s) ==
    /\ ~Crashed
    /\ orch.pc = "status_req"
    /\ StartConnect("status", StatusReq, s)
    /\ orch' = [orch EXCEPT !.pc = "status_call", !.faults = @ + FaultsOf(s)]
    /\ UNCHANGED <<tasks, wg, errChan, storeVars>>

\* sd.Status() has returned: on an error GetData, and Update, return it.
StatusDone ==
    /\ ~Crashed
    /\ orch.pc = "status_call"
    /\ FinishConnect
    /\ orch' = IF conn["c1"].result = "ok"
               THEN [orch EXCEPT !.pc = "lineups"]
               ELSE UpdateReturns(orch, "StatusErr")
    /\ UNCHANGED <<tasks, wg, errChan, storeVars>>

\* sd.Resp.Status.Lineups: the lineups of the account.
StatusLineups == <<"L1">>

\* Cache.Channel = make(map[string]G2GCache)
ResetChannel(c) == [c EXCEPT !.Channel = EmptyMap, !.nilMaps = @ \ {"Channel"}]

\* processLineups: the Channel map is replaced, by the orchestrator itself,
\* without the lock.
LineupsReset ==
    /\ ~Crashed
    /\ orch.pc = "lineups"
    /\ cache' = ResetChannel(cache)
    /\ orch' = [orch EXCEPT !.pc = "lineup_loop", !.i = 0, !.plan = <<>>]
    /\ UNCHANGED <<file, tmp, mu, now, tasks, wg, errChan, clientVars>>

\* case <-ctx.Done(): return ctx.Err(); GetData and Update return it.
LineupCancelled ==
    /\ ~Crashed
    /\ orch.pc = "lineup_loop"
    /\ orch.i < Len(StatusLineups)
    /\ ctxDone
    /\ orch' = UpdateReturns(orch, "Cancelled")
    /\ UNCHANGED <<tasks, wg, errChan, storeVars, clientVars>>

\* default: sd.Lineups() for the lineup.
LineupRequest(s) ==
    /\ ~Crashed
    /\ orch.pc = "lineup_loop"
    /\ orch.i < Len(StatusLineups)
    /\ ~ctxDone
    /\ StartConnect("lineups", Request("lineups", <<StatusLineups[orch.i + 1]>>, 0), s)
    /\ orch' = [orch EXCEPT !.pc = "lineup_call", !.plan = Append(@, s),
                            !.faults = @ + FaultsOf(s)]
    /\ UNCHANGED <<tasks, wg, errChan, storeVars>>

\* sd.Lineups() has returned: an error is logged; otherwise
\* Cache.AddStations(ctx, &sd.Resp.Body, id), whose error is logged too.
LineupDone ==
    /\ ~Crashed
    /\ orch.pc = "lineup_call"
    /\ FinishConnect
    /\ IF conn["c1"].result = "ok"
       THEN /\ mu = "free"
            /\ LET r == AddStations(cache, conn["c1"].body)
               IN  /\ cache' = r.c
                   /\ orch' = IF r.err = "panic"
                              THEN [orch EXCEPT !.pc = "panic"]
                              ELSE [orch EXCEPT !.pc = "lineup_loop", !.i = @ + 1]
       ELSE /\ orch' = [orch EXCEPT !.pc = "lineup_loop", !.i = @ + 1]
            /\ UNCHANGED cache
    /\ UNCHANGED <<file, tmp, mu, now, tasks, wg, errChan>>

\* processLineups returns nil and processSchedules is entered.
LineupsEnd ==
    /\ ~Crashed
    /\ orch.pc = "lineup_loop"
    /\ orch.i >= Len(StatusLineups)
    /\ orch' = EnterSchedules(orch)
    /\ tasks' = Orphans(tasks)
    /\ wg' = 0
    /\ errChan' = NewChan
    /\ UNCHANGED <<storeVars, clientVars>>

\* processSchedules has returned: GetData returns its error, or goes on to
\* processProgramsAndMetadata.
AfterSchedules ==
    /\ ~Crashed
    /\ orch.pc = "sched_ret"
    /\ orch' = IF orch.result = "nil"
               THEN [orch EXCEPT !.pc = "prog_start", !.plan = <<>>, !.result = "none"]
               ELSE UpdateReturns(orch, orch.result)
    /\ UNCHANGED <<tasks, wg, errChan, storeVars, clientVars>>

\* programIDs := Cache.GetRequiredProgramIDs(); types = {"programs", "metadata"}.
ProgStart ==
    /\ ~Crashed
    /\ orch.pc = "prog_start"
    /\ orch' = [orch EXCEPT !.pc = "type_loop", !.t = "programs",
                            !.ids = GetRequiredProgramIDs(cache),
                            !.startKeys = DOMAIN cache.Program,
                            !.startRefs = ReferencedProgramIDs(cache)]
    /\ UNCHANGED <<tasks, wg, errChan, storeVars, clientVars>>

\* for _, t := range types: case <-ctx.Done(): return ctx.Err()
TypeCancelled ==
    /\ ~Crashed
    /\ orch.pc = "type_loop"
    /\ ctxDone
    /\ orch' = UpdateReturns(orch, "Cancelled")
    /\ UNCHANGED <<tasks, wg, errChan, storeVars, clientVars>>

\* default: for "metadata" programIDs = Cache.GetRequiredMetaIDs(); then
\* var wg sync.WaitGroup; errChan := make(chan error, 1); i := 0.
TypeBegin ==
    /\ ~Crashed
    /\ orch.pc = "type_loop"
    /\ ~ctxDone
    /\ orch' = [orch EXCEPT !.pc = "prog_loop", !.i = 0, !.plan = <<>>,
                            !.ids = IF orch.t = "metadata"
                                    THEN GetRequiredMetaIDs(cache) ELSE @]
    /\ tasks' = Orphans(tasks)
    /\ wg' = 0
    /\ errChan' = NewChan
    /\ UNCHANGED <<storeVars, clientVars>>

\* Inside the batch loop: case <-ctx.Done(): return ctx.Err()
ProgCancelled ==
    /\ ~Crashed
    /\ orch.pc = "prog_loop"
    /\ orch.i < Len(orch.ids)
    /\ ctxDone
    /\ orch' = UpdateReturns(orch, "Cancelled")
    /\ UNCHANGED <<tasks, wg, errChan, storeVars, clientVars>>

\* default: the batch programIDs[i:end] is marshalled into sd.Req.Data and
\* sd.Program() is called.  The IDs of a programs request that were keys of
\* the Program map when the phase started, or in the snapshot that the
\* previous run saved, are noted as refetched.
ProgRequest(s) ==
    /\ ~Crashed
    /\ orch.pc = "prog_loop"
    /\ orch.i < Len(orch.ids)
    /\ ~ctxDone
    /\ LET batch == Batch(orch.ids, orch.i, metadataBatchSize)
           sent == IF orch.t = "programs" THEN Range(batch) ELSE {}
       IN  /\ StartConnect(orch.t, Request(orch.t, batch, 0), s)
           /\ orch' = [orch EXCEPT !.pc = "prog_call", !.faults = @ + FaultsOf(s),
                                   !.plan = Append(@, s),
                                   !.requested = @ \cup sent,
                                   !.refetched = @ \cup (sent \cap (orch.startKeys \cup orch.prevSaved))]
    /\ UNCHANGED <<tasks, wg, errChan, storeVars>>

\* sd.Program() returned nil: wg.Add(1); go func() {...}(); i += batchSize.
ProgDispatch ==
    /\ ~Crashed
    /\ orch.pc = "prog_call"
    /\ conn["c1"].result = "ok"
    /\ FinishConnect
    /\ wg' = wg + 1
    /\ tasks' = Append(tasks, NewTask(orch.t, (orch.i \div metadataBatchSize) + 1))
    /\ orch' = [orch EXCEPT !.pc = "prog_loop", !.i = @ + metadataBatchSize]
    /\ UNCHANGED <<errChan, storeVars>>

\* sd.Program() returned an error: it is logged; continue.
ProgSkip ==
    /\ ~Crashed
    /\ orch.pc = "prog_call"
    /\ conn["c1"].result # "ok"
    /\ FinishConnect
    /\ orch' = [orch EXCEPT !.pc = "prog_loop", !.i = @ + metadataBatchSize]
    /\ UNCHANGED <<tasks, wg, errChan, storeVars>>

\* The loop condition i < len(programIDs) fails.
ProgLoopEnd ==
    /\ ~Crashed
    /\ orch.pc = "prog_loop"
    /\ orch.i >= Len(orch.ids)
    /\ orch' = [orch EXCEPT !.pc = "prog_wait"]
    /\ UNCHANGED <<tasks, wg, errChan, storeVars, clientVars>>

\* wg.Wait(); close(errChan)
ProgJoin ==
    /\ ~Crashed
    /\ orch.pc = "prog_wait"
    /\ WaitReleased(wg)
    /\ errChan' = [errChan EXCEPT !.closed = TRUE]
    /\ orch' = [orch EXCEPT !.pc = "prog_recv"]
    /\ UNCHANGED <<tasks, wg, storeVars, clientVars>>

\* if err := <-errChan; err != nil { return err }; then the next type, and
\* after "metadata" processProgramsAndMetadata returns nil.
ProgReturn ==
    /\ ~Crashed
    /\ orch.pc = "prog_recv"
    /\ errChan.closed \/ errChan.buf # <<>>
    /\ orch' = IF errChan.buf # <<>>
               THEN UpdateReturns([orch EXCEPT !.errFrom = Head(errChan.buf)], "MergeErr")
               ELSE IF orch.t = "programs"
               THEN [orch EXCEPT !.pc = "type_loop", !.t = "metadata"]
               ELSE [orch EXCEPT !.pc = "save"]
    /\ errChan' = [errChan EXCEPT !.buf = <<>>]
    /\ UNCHANGED <<tasks, wg, storeVars, clientVars>>

\* Cache.Save() at the end of GetData.
GetDataSave ==
    /\ ~Crashed
    /\ orch.pc = "save"
    /\ mu = "free"
    /\ file' = Save(cache)
    /\ orch' = [orch EXCEPT !.pc = "xml_open", !.prevSaved = DOMAIN cache.Program]
    /\ UNCHANGED <<cache, tmp, mu, now, tasks, wg, errChan, clientVars>>

\* CreateXMLTV after its Cache.Open(): Cache.Init(), then the document is
\* written from the maps.
XmlInit ==
    /\ ~Crashed
    /\ orch.pc = "xml_init"
    /\ mu = "free"
    /\ cache' = Init(cache, now)
    /\ orch' = [orch EXCEPT !.pc = "cleanup"]
    /\ UNCHANGED <<file, tmp, mu, now, tasks, wg, errChan, clientVars>>

\* Cache.CleanUp() at the end of Update, which returns nil.
UpdateCleanUp ==
    /\ ~Crashed
    /\ orch.pc = "cleanup"
    /\ mu = "free"
    /\ cache' = CleanUp(cache, now)
    /\ orch' = UpdateReturns(orch, "nil")
    /\ UNCHANGED <<file, tmp, mu, now, tasks, wg, errChan, clientVars>>

PipelineInit ==
    /\ BackoffIdle
    /\ tokens = rateLimiterBurst
    /\ ctxDone = FALSE
    /\ conn = [c \in Clients |-> IF c = "c1" THEN IdleConn ELSE OffConn]
    /\ script = [c \in Clients |-> <<>>]
    /\ winSent = 0
    /\ winRefill = 0
    /\ StoreIdle
    /\ orch = [IdleOrch EXCEPT !.pc = "idle"]
    /\ tasks = <<>>
    /\ wg = 0
    /\ errChan = NewChan

Next ==
    \/ StoreInit /\ UNCHANGED pureVars
    \/ StoreSave /\ UNCHANGED pureVars
    \/ Advance /\ UNCHANGED pureVars
    \/ \E s \in PipeScripts : UpdateLogin(s) /\ UNCHANGED pureVars
    \/ LoginDone /\ UNCHANGED pureVars
    \/ UpdateStart /\ UNCHANGED pureVars
    \/ CacheOpen /\ UNCHANGED pureVars
    \/ GetDataInit /\ UNCHANGED pureVars
    \/ \E s \in PipeScripts : GetDataStatus(s) /\ UNCHANGED pureVars
    \/ StatusDone /\ UNCHANGED pureVars
    \/ LineupsReset /\ UNCHANGED pureVars
    \/ LineupCancelled /\ UNCHANGED pureVars
    \/ \E s \in PipeScripts : LineupRequest(s) /\ UNCHANGED pureVars
    \/ LineupDone /\ UNCHANGED pureVars
    \/ LineupsEnd /\ UNCHANGED pureVars
    \/ SchedCancelled /\ UNCHANGED pureVars
    \/ \E s \in PipeScripts : SchedRequest(s) /\ UNCHANGED pureVars
    \/ SchedDispatch /\ UNCHANGED pureVars
    \/ SchedSkip /\ UNCHANGED pureVars
    \/ SchedLoopEnd /\ UNCHANGED pureVars
    \/ SchedJoin /\ UNCHANGED pureVars
    \/ SchedReturn /\ UNCHANGED pureVars
    \/ AfterSchedules /\ UNCHANGED pureVars
    \/ ProgStart /\ UNCHANGED pureVars
    \/ TypeCancelled /\ UNCHANGED pureVars
    \/ TypeBegin /\ UNCHANGED pureVars
    \/ ProgCancelled /\ UNCHANGED pureVars
    \/ \E s \in PipeScripts : ProgRequest(s) /\ UNCHANGED pureVars
    \/ ProgDispatch /\ UNCHANGED pureVars
    \/ ProgSkip /\ UNCHANGED pureVars
    \/ ProgLoopEnd /\ UNCHANGED pureVars
    \/ ProgJoin /\ UNCHANGED pureVars
    \/ ProgReturn /\ UNCHANGED pureVars
    \/ GetDataSave /\ UNCHANGED pureVars
    \/ XmlInit /\ UNCHANGED pureVars
    \/ UpdateCleanUp /\ UNCHANGED pureVars
    \/ \E k \in DOMAIN tasks : TaskMerge(k) /\ UNCHANGED pureVars
    \/ \E k \in DOMAIN tasks : TaskFinish(k) /\ UNCHANGED pureVars
    \/ ConnectWait("c1") /\ UNCHANGED nonClientVars
    \/ ScriptedAttempt("c1") /\ UNCHANGED nonClientVars
    \/ ConnectSleep("c1") /\ UNCHANGED nonClientVars
    \/ ConnectWaitBlocked("c1") /\ UNCHANGED nonClientVars
    \/ Cancel /\ UNCHANGED nonClientVars

Spec == PipelineInit /\ [][Next]_vars

(***************************************************************************)
(* The store on its own: one process makes a store, merges payloads into   *)
(* it and saves it step by step; it can stop at any point; a store made    *)
(* anew then opens the file (TestCacheOpenAndSave, and Update after a      *)
(* restart).  fnCall holds the last call on the store and its result.      *)
(***************************************************************************)
MaxOps == 4

MergeCalls == {"lineups", "schedule", "programs", "metadata"}

\* The requests whose answers are handed to the merge operations.
StoreRequests ==
    { Request("lineups", <<"L1">>, 0), Request("lineups", <<"L2">>, 0),
      Request("schedule", <<"s1">>, 1), Request("schedule", <<"s2", "s3">>, 1),
      Request("programs", <<"A">>, 0),
      Request("metadata", <<"B">>, 0), Request("metadata", <<"A", "E1">>, 0),
      Request("metadata", <<"E2", "B">>, 0) }

\* The bodies handed to the merge operations: the payload of each request, an
\* error object, a body that is no JSON, an array of the wrong elements.
StoreBodies ==
    {BodyOf(<<200, k>>, req, 1) :
        k \in {"payload", "errobj", "garbage", "badarray"}, req \in StoreRequests}

StoreCall(fn, in, out) == [fn |-> fn, in |-> in, out |-> out]

StoreDriverInit ==
    /\ BackoffIdle
    /\ ClientIdle
    /\ StoreIdle
    /\ orch = [IdleOrch EXCEPT !.pc = "new"]
    /\ tasks = <<>>
    /\ wg = 0
    /\ errChan = NewChan

\* c := &cache{}; c.Init()
DriverInit ==
    /\ orch.pc = "new"
    /\ cache' = Init(cache, now)
    /\ orch' = [orch EXCEPT !.pc = "ready"]
    /\ UNCHANGED <<file, tmp, mu, now, fnCall>>

\* One of the four merge operations is called with a body.
DriverMerge(call, body) ==
    /\ orch.pc = "ready"
    /\ orch.i < MaxOps
    /\ LET r == MergeFor(call, cache, body)
       IN  /\ cache' = r.c
           /\ fnCall' = StoreCall(call, body, r.err)
           /\ orch' = [orch EXCEPT !.i = @ + 1, !.result = r.err]
    /\ UNCHANGED <<file, tmp, mu, now>>

\* Save: c.Lock(), the path is configured, os.MkdirAll(dir, 0755) and
\* json.MarshalIndent(c, "", "  ").
SaveEnter(mkdirOk) ==
    /\ orch.pc = "ready"
    /\ orch.i < MaxOps
    /\ IF mkdirOk
       THEN /\ mu' = "held"
            /\ orch' = [orch EXCEPT !.pc = "save_write", !.i = @ + 1]
            /\ UNCHANGED fnCall
       ELSE /\ mu' = "free"
            /\ orch' = [orch EXCEPT !.i = @ + 1, !.result = "MkdirErr"]
            /\ fnCall' = StoreCall("Save", NoBody, "MkdirErr")
    /\ UNCHANGED <<cache, file, tmp, now>>

\* Save: os.WriteFile(tmpFile, data, 0644); an error is returned as it is.
SaveWrite(outcome) ==
    /\ orch.pc = "save_write"
    /\ LET w == WriteFile(tmp, Snapshot(cache), outcome)
       IN  /\ tmp' = w.file
           /\ IF w.err = "nil"
              THEN /\ orch' = [orch EXCEPT !.pc = "save_rename"]
                   /\ UNCHANGED <<mu, fnCall>>
              ELSE /\ orch' = [orch EXCEPT !.pc = "ready", !.result = w.err]
                   /\ mu' = "free"
                   /\ fnCall' = StoreCall("Save", NoBody, w.err)
    /\ UNCHANGED <<cache, file, now>>

\* Save: os.Rename(tmpFile, path); success returns nil.
SaveRename(ok) ==
    /\ orch.pc = "save_rename"
    /\ LET r == Rename(tmp, file, ok)
       IN  /\ tmp' = r.src
           /\ file' = r.dst
           /\ IF r.err = "nil"
              THEN /\ orch' = [orch EXCEPT !.pc = "ready", !.result = "nil"]
                   /\ mu' = "free"
                   /\ fnCall' = StoreCall("Save", NoBody, "nil")
              ELSE /\ orch' = [orch EXCEPT !.pc = "save_remove"]
                   /\ UNCHANGED <<mu, fnCall>>
    /\ UNCHANGED <<cache, now>>

\* Save after a failed rename: os.Remove(tmpFile), then the error is returned.
SaveRemove ==
    /\ orch.pc = "save_remove"
    /\ tmp' = NoFile
    /\ orch' = [orch EXCEPT !.pc = "ready", !.result = "RenameErr"]
    /\ mu' = "free"
    /\ fnCall' = StoreCall("Save", NoBody, "RenameErr")
    /\ UNCHANGED <<cache, file, now>>

\* The process stops: the store in memory and its lock are gone, the files
\* are as they were.
ProcessStop ==
    /\ orch.pc \in {"ready", "save_write", "save_rename", "save_remove"}
    /\ cache' = ZeroCache
    /\ mu' = "free"
    /\ orch' = [orch EXCEPT !.pc = "stopped", !.result = "none"]
    /\ fnCall' = NoCall
    /\ UNCHANGED <<file, tmp, now>>

\* c2 := &cache{}, with or without c2.Init(), then c2.Open(): from here on
\* cache is the new store.
FreshOpen(initFirst) ==
    /\ orch.pc \in {"ready", "stopped"}
    /\ LET c2 == IF initFirst THEN Init(ZeroCache, now) ELSE ZeroCache
           r == Open(c2, file, now)
       IN  /\ cache' = r.c
           /\ mu' = IF r.stuck THEN "stuck" ELSE "free"
           /\ orch' = [orch EXCEPT !.pc = IF r.stuck THEN "hung" ELSE "opened",
                                   !.result = r.err]
           /\ fnCall' = StoreCall("Open", NoBody, r.err)
    /\ UNCHANGED <<file, tmp, now>>

\* What the store driver leaves alone.
driverFrame == <<bAttempt, bDelay, runs, clientVars, tasks, wg, errChan>>

StoreNext ==
    \/ DriverInit /\ UNCHANGED driverFrame
    \/ \E call \in MergeCalls, body \in StoreBodies :
          DriverMerge(call, body) /\ UNCHANGED driverFrame
    \/ \E mkdirOk \in BOOLEAN : SaveEnter(mkdirOk) /\ UNCHANGED driverFrame
    \/ \E outcome \in WriteOutcomes : SaveWrite(outcome) /\ UNCHANGED driverFrame
    \/ \E ok \in BOOLEAN : SaveRename(ok) /\ UNCHANGED driverFrame
    \/ SaveRemove /\ UNCHANGED driverFrame
    \/ ProcessStop /\ UNCHANGED driverFrame
    \/ \E initFirst \in BOOLEAN : FreshOpen(initFirst) /\ UNCHANGED driverFrame

SpecStore == StoreDriverInit /\ [][StoreNext]_vars

(***************************************************************************)
(* The pure functions.  Each specification draws the arguments of one      *)
(* function in its initial state and has one action, the call.             *)
(***************************************************************************)
\* What a call of a pure function leaves alone.
pureFrame == <<bAttempt, bDelay, runs, clientVars, storeVars, orchVars>>

\* All but fnCall is idle.
PureIdle ==
    /\ bAttempt = 0
    /\ bDelay = NoDelay
    /\ runs = NoRuns
    /\ ClientIdle
    /\ StoreIdle
    /\ OrchIdle

\* A call that has its arguments and has not run.
Pending(fn, in) == [fn |-> fn, in |-> in, done |-> FALSE, out |-> "none"]

\* The sequences over S of length at most n.
SeqsUpTo(S, n) == UNION {[1 .. k -> S] : k \in 0 .. n}

(***************************************************************************)
(* GetRating (cache.go).  A content rating of a program is {body, code,    *)
(* country}; the body is the rating system of its country.                 *)
(***************************************************************************)
MaxRatings == 3
MaxCountries == 2
MaxEntriesCap == 2

RatingCountries == {"DEU", "USA", "CHE"}

RatingBodyOf == [c \in RatingCountries |->
                   CASE c = "DEU" -> "Freiwillige Selbstkontrolle der Filmwirtschaft"
                     [] c = "USA" -> "USA Parental Rating"
                     [] OTHER     -> "Schweizerische Kommission Jugendschutz im Film"]

RatingCodeOf == [c \in RatingCountries |->
                   CASE c = "DEU" -> "12" [] c = "USA" -> "TV14" [] OTHER -> "14"]

\* p.ContentRating of one program: its entries, in the order of the document.
ContentRatingOf(c) == [Body |-> RatingBodyOf[c], Code |-> RatingCodeOf[c], Country |-> c]

ContentRatings == {ContentRatingOf(c) : c \in RatingCountries}

\* The arguments of GetRating: whether c.Program holds the id, the ratings of
\* the program, the country code of the lineup, and Config.Options.Rating.
RatingInputs ==
    [present : BOOLEAN,
     ratings : SeqsUpTo(ContentRatings, MaxRatings),
     countryCode : {"DEU", "USA"},
     Guidelines : BOOLEAN,
     MaxEntries : 0 .. MaxEntriesCap,
     Countries : SeqsUpTo({"DEU", "USA"}, MaxCountries),
     CountryCodeAsSystem : BOOLEAN]

\* add(code, body, country): the entry appended to ra.
RatingEntry(r, in) ==
    [Value |-> r.Code, System |-> IF in.CountryCodeAsSystem THEN r.Country ELSE r.Body]

\* A loop over the ratings that appends every match, whatever MaxEntries is.
RECURSIVE RatingLoopUncapped(_, _, _, _, _, _)
RatingLoopUncapped(st, rs, i, code, eq, in) ==
    IF st.returned \/ i > Len(rs)
    THEN st
    ELSE RatingLoopUncapped(IF (code = rs[i].Country) = eq
                            THEN [st EXCEPT !.ra = Append(@, RatingEntry(rs[i], in))]
                            ELSE st,
                            rs, i + 1, code, eq, in)

\* for _, r := range p.ContentRating from index i on: the function returns
\* when ra has MaxEntries entries and MaxEntries is not 0; otherwise the
\* rating is appended when its country is code (eq) or is not code (~eq).
RECURSIVE RatingLoop(_, _, _, _, _, _)
RatingLoop(st, rs, i, code, eq, in) ==
    IF st.returned \/ i > Len(rs)
    THEN st
    ELSE IF Len(st.ra) = in.MaxEntries /\ in.MaxEntries # 0
    THEN [st EXCEPT !.returned = TRUE]
    ELSE RatingLoop(IF (code = rs[i].Country) = eq
                    THEN [st EXCEPT !.ra = Append(@, RatingEntry(rs[i], in))]
                    ELSE st,
                    rs, i + 1, code, eq, in)

\* for _, cCode := range Countries from index j on.
RECURSIVE CountriesLoop(_, _, _, _)
CountriesLoop(st, j, rs, in) ==
    IF st.returned \/ j > Len(in.Countries)
    THEN st
    ELSE CountriesLoop(RatingLoop(st, rs, 1, in.Countries[j], TRUE, in), j + 1, rs, in)

\* func (c *cache) GetRating(id, countryCode string, app *App) (ra []Rating)
GetRating(in) ==
    LET start == [ra |-> <<>>, returned |-> FALSE]
    IN  IF ~in.Guidelines \/ ~in.present
        THEN <<>>
        ELSE IF Len(in.Countries) = 0
        THEN RatingLoop(RatingLoop(start, in.ratings, 1, in.countryCode, TRUE, in),
                        in.ratings, 1, in.countryCode, FALSE, in).ra
        ELSE CountriesLoop(start, 1, in.ratings, in).ra

RatingInit ==
    /\ PureIdle
    /\ fnCall \in {Pending("GetRating", in) : in \in RatingInputs}

RatingCall ==
    /\ fnCall.fn = "GetRating"
    /\ ~fnCall.done
    /\ fnCall' = [fnCall EXCEPT !.done = TRUE, !.out = GetRating(fnCall.in)]

RatingNext == RatingCall /\ UNCHANGED pureFrame

SpecRating == RatingInit /\ [][RatingNext]_vars

(***************************************************************************)
(* isValidImageID and proxyImages (server.go).  A string is the sequence   *)
(* of its bytes; the bytes drawn are the ends of the ranges of the pattern *)
(* ^[a-zA-Z0-9._-]+$, the bytes next to them, and / @ space and newline.   *)
(***************************************************************************)
MaxIdLen == 3

\* "a" "z" "A" "Z" "0" "9" "." "_" "-"
ClassBytes == {97, 122, 65, 90, 48, 57, 46, 95, 45}

\* "/" "@" " " "\n" "`" "{" "[" ":"
OtherBytes == {47, 64, 32, 10, 96, 123, 91, 58}

ImageIDs == SeqsUpTo(ClassBytes \cup OtherBytes, MaxIdLen)

\* What the upstream server does with a request that reaches it.
UpstreamOutcomes == {"200", "404", "NetErr"}

\* The character class [a-zA-Z0-9._-].
InPatternClass(b) ==
    \/ b \in 97 .. 122
    \/ b \in 65 .. 90
    \/ b \in 48 .. 57
    \/ b \in {46, 95, 45}

\* A pattern without the anchors: some byte of the class is in the string.
isValidImageIDUnanchored(id) == \E i \in DOMAIN id : InPatternClass(id[i])

\* The class repeated from byte i on, as long as it matches: the index after
\* the last byte taken.
RECURSIVE ClassRun(_, _)
ClassRun(id, i) ==
    IF i <= Len(id) /\ InPatternClass(id[i]) THEN ClassRun(id, i + 1) ELSE i

\* func isValidImageID(id string) bool: imageIDPattern.MatchString(id), with ^
\* at the start of the text, one byte of the class or more, and $ at the end
\* of the text.
isValidImageID(id) ==
    LET end == ClassRun(id, 1)
    IN  end > 1 /\ end = Len(id) + 1

\* func (app *App) proxyImages(w, r) for the id of the route and the outcome
\* of the upstream request: the status written, and whether httpClient.Do was
\* called.
proxyImages(id, upstream) ==
    IF ~isValidImageID(id)
    THEN [status |-> 400, sent |-> FALSE]
    ELSE IF upstream = "NetErr"
    THEN [status |-> 502, sent |-> TRUE]
    ELSE [status |-> IF upstream = "200" THEN 200 ELSE 404, sent |-> TRUE]

ImagesInit ==
    /\ PureIdle
    /\ fnCall \in {Pending("proxyImages", [id |-> id, upstream |-> u]) :
                      id \in ImageIDs, u \in UpstreamOutcomes}

ProxyCall ==
    /\ fnCall.fn = "proxyImages"
    /\ ~fnCall.done
    /\ fnCall' = [fnCall EXCEPT !.done = TRUE,
                                !.out = proxyImages(fnCall.in.id, fnCall.in.upstream)]

ImagesNext == ProxyCall /\ UNCHANGED pureFrame

SpecImages == ImagesInit /\ [][ImagesNext]_vars

(***************************************************************************)
(* validateImagePath (server.go), on Unix paths.  A path is the sequence   *)
(* of its characters, drawn from "a", "." and "/".                         *)
(***************************************************************************)
MaxNameLen == 5

PathChars == {"a", ".", "/"}

ImageNames == SeqsUpTo(PathChars, MaxNameLen)

\* The image directories: "/a" and "/a/".
BasePaths == {<<"/", "a">>, <<"/", "a", "/">>}

\* The elements of a path: the runs of characters between its slashes, the
\* empty ones left out.  cur is the element being read from index i on.
RECURSIVE ElementsFrom(_, _, _)
ElementsFrom(path, i, cur) ==
    IF i > Len(path)
    THEN IF cur = <<>> THEN <<>> ELSE <<cur>>
    ELSE IF path[i] = "/"
    THEN (IF cur = <<>> THEN <<>> ELSE <<cur>>) \o ElementsFrom(path, i + 1, <<>>)
    ELSE ElementsFrom(path, i + 1, Append(cur, path[i]))

Elements(path) == ElementsFrom(path, 1, <<>>)

\* filepath.Clean on the elements from index i on, out being the elements
\* kept so far: "." is dropped; ".." drops the element before it, is dropped
\* itself at the root of a rooted path, and is kept at the start of a
\* relative one.
RECURSIVE CleanElements(_, _, _, _)
CleanElements(els, i, out, rooted) ==
    IF i > Len(els) THEN out
    ELSE IF els[i] = <<".">>
    THEN CleanElements(els, i + 1, out, rooted)
    ELSE IF els[i] = <<".", ".">>
    THEN IF out # <<>> /\ out[Len(out)] # <<".", ".">>
         THEN CleanElements(els, i + 1, SubSeq(out, 1, Len(out) - 1), rooted)
         ELSE IF rooted
         THEN CleanElements(els, i + 1, out, rooted)
         ELSE CleanElements(els, i + 1, Append(out, els[i]), rooted)
    ELSE CleanElements(els, i + 1, Append(out, els[i]), rooted)

\* The elements joined by single slashes.
RECURSIVE JoinElements(_, _)
JoinElements(els, i) ==
    IF i > Len(els) THEN <<>>
    ELSE els[i] \o (IF i < Len(els) THEN <<"/">> ELSE <<>>) \o JoinElements(els, i + 1)

\* filepath.Clean(path): the shortest equivalent path; "" becomes ".".
Clean(path) ==
    LET rooted == path # <<>> /\ path[1] = "/"
        kept == CleanElements(Elements(path), 1, <<>>, rooted)
    IN  IF rooted THEN <<"/">> \o JoinElements(kept, 1)
        ELSE IF kept = <<>> THEN <<".">>
        ELSE JoinElements(kept, 1)

\* filepath.Join(a, b): the non-empty arguments joined by a slash, cleaned.
Join(a, b) ==
    IF a = <<>> /\ b = <<>> THEN <<>>
    ELSE IF b = <<>> THEN Clean(a)
    ELSE IF a = <<>> THEN Clean(b)
    ELSE Clean(a \o <<"/">> \o b)

\* strings.HasPrefix(s, prefix)
HasPrefix(s, prefix) ==
    Len(s) >= Len(prefix) /\ SubSeq(s, 1, Len(prefix)) = prefix

\* func validateImagePath(basePath, name string) error
validateImagePath(basePath, name) ==
    LET cleanPath == Clean(Join(basePath, name))
    IN  IF ~HasPrefix(cleanPath, Clean(basePath)) THEN "InvalidPath" ELSE "nil"

PathInit ==
    /\ PureIdle
    /\ fnCall \in {Pending("validateImagePath", [basePath |-> b, name |-> n]) :
                      b \in BasePaths, n \in ImageNames}

PathCall ==
    /\ fnCall.fn = "validateImagePath"
    /\ ~fnCall.done
    /\ fnCall' = [fnCall EXCEPT
                    !.done = TRUE,
                    !.out = validateImagePath(fnCall.in.basePath, fnCall.in.name)]

PathNext == PathCall /\ UNCHANGED pureFrame

SpecPath == PathInit /\ [][PathNext]_vars

(***************************************************************************)
(* SpecRuns: the goroutines that the /run handler starts, each an Update   *)
(* on the one store, and Cache.Remove() called from outside.  A goroutine  *)
(* goes through what Update does to the store step by step: a store method *)
(* takes the lock when it is entered and gives it back when it returns, an *)
(* access from outside the store takes nothing.                            *)
(***************************************************************************)
\* What Update does to the store, in order.  GetData: Open, Init, the reset
\* of processLineups, the four merges, Save.  CreateXMLTV: Open, Init, the
\* loops of writeChannels and writePrograms over Cache.Channel, the lookup of
\* getPrograms in Cache.Schedule, the accessors of createProgram.  Then
\* CleanUp.
UpdateSteps ==
    <<"Open", "Init", "Reset", "AddStations", "AddSchedule", "AddProgram", "AddMetadata",
      "Save", "Open", "Init", "RangeChannel", "GetSchedule", "GetTitle", "CleanUp">>

\* The steps that are store methods beginning with c.Lock(); defer c.Unlock().
LockedSteps ==
    {"Open", "Init", "AddStations", "AddSchedule", "AddProgram", "AddMetadata", "Save",
     "CleanUp"}

\* The steps that assign to a map or to an entry of a map.
WritingSteps ==
    {"Open", "Init", "Reset", "AddStations", "AddSchedule", "AddProgram", "AddMetadata",
     "CleanUp"}

\* The call whose answer a merge step is given, and the request of the run.
MergeCallOf ==
    [AddStations |-> "lineups", AddSchedule |-> "schedule", AddProgram |-> "programs",
     AddMetadata |-> "metadata"]

RunRequestOf ==
    [AddStations |-> Request("lineups", <<"L1">>, 0),
     AddSchedule |-> Request("schedule", <<"s1">>, 1),
     AddProgram  |-> Request("programs", <<"A">>, 0),
     AddMetadata |-> Request("metadata", <<"A">>, 0)]

\* What a step has done to the store and the cache file when it is over.
StepEffect(step, c, f, t) ==
    CASE step = "Open" ->
            LET r == Open(c, f, t) IN [c |-> r.c, f |-> f, err |-> r.err, stuck |-> r.stuck]
      [] step = "Init" -> [c |-> Init(c, t), f |-> f, err |-> "nil", stuck |-> FALSE]
      [] step = "Reset" -> [c |-> ResetChannel(c), f |-> f, err |-> "nil", stuck |-> FALSE]
      [] step \in DOMAIN MergeCallOf ->
            LET r == MergeFor(MergeCallOf[step], c,
                              BodyOf(<<200, "payload">>, RunRequestOf[step], 1))
            IN  [c |-> r.c, f |-> f, err |-> r.err, stuck |-> FALSE]
      [] step = "Save" -> [c |-> c, f |-> Save(c), err |-> "nil", stuck |-> FALSE]
      [] step = "CleanUp" -> [c |-> CleanUp(c, t), f |-> f, err |-> "nil", stuck |-> FALSE]
      [] OTHER -> [c |-> c, f |-> f, err |-> "nil", stuck |-> FALSE]

\* func (c *cache) Remove(): under c.Lock(), os.RemoveAll(path); its error is
\* returned; otherwise c.Init() is called, which waits for the lock that
\* Remove holds.
Remove(c, f, ok) ==
    IF ok
    THEN [c |-> c, f |-> NoFile, err |-> "nil", stuck |-> TRUE]
    ELSE [c |-> c, f |-> f, err |-> "RemoveErr", stuck |-> FALSE]

\* The store is as newApp makes it or has been initialised; there is no
\* cache file or it is the file that a Save of the store writes.
RunsInit ==
    /\ BackoffIdle
    /\ ClientIdle
    /\ OrchIdle
    /\ cache \in {ZeroCache, Init(ZeroCache, 1)}
    /\ file \in {NoFile, Save(cache)}
    /\ tmp = NoFile
    /\ mu = "free"
    /\ now = 1

\* func (app *App) run: go func() { sd.Update(...) }(); the handler answers
\* "Grabbing EPG" at once.
RunRequest(r) ==
    /\ runs[r].at = "off"
    /\ runs' = [runs EXCEPT ![r] = [pc |-> 1, at |-> "before"]]
    /\ UNCHANGED <<cache, file, mu, fnCall>>

\* The goroutine enters its next step; c.Lock() waits until the lock is free.
StepBegin(r) ==
    /\ runs[r].at = "before"
    /\ LET step == UpdateSteps[runs[r].pc]
       IN  /\ step \in LockedSteps => mu = "free"
           /\ mu' = IF step \in LockedSteps THEN "held" ELSE mu
    /\ runs' = [runs EXCEPT ![r].at = "in"]
    /\ UNCHANGED <<cache, file, fnCall>>

\* The step is over: the method returns and the lock is given back, or it
\* calls c.Init() under its own lock and never returns.  An error of Open
\* ends Update; a write to a nil map ends the process.
StepEnd(r) ==
    /\ runs[r].at = "in"
    /\ LET step == UpdateSteps[runs[r].pc]
           e == StepEffect(step, cache, file, now)
       IN  /\ file' = e.f
           /\ IF e.err = "panic"
              THEN /\ cache' = ZeroCache
                   /\ mu' = "free"
                   /\ runs' = [x \in Runs |-> [runs[x] EXCEPT !.at = "dead"]]
              ELSE /\ cache' = e.c
                   /\ mu' = IF e.stuck THEN "stuck"
                            ELSE IF step \in LockedSteps THEN "free" ELSE mu
                   /\ runs' = [runs EXCEPT ![r] =
                                 IF e.stuck THEN [@ EXCEPT !.at = "hung"]
                                 ELSE IF e.err # "nil" \/ @.pc = Len(UpdateSteps)
                                 THEN [@ EXCEPT !.at = "done"]
                                 ELSE [pc |-> @.pc + 1, at |-> "before"]]
    /\ UNCHANGED fnCall

\* Cache.Remove() is called once, by a goroutine of its own.
RemoveCall(ok) ==
    /\ fnCall = NoCall
    /\ mu = "free"
    /\ LET r == Remove(cache, file, ok)
       IN  /\ cache' = r.c
           /\ file' = r.f
           /\ mu' = IF r.stuck THEN "stuck" ELSE "free"
           /\ fnCall' = StoreCall("Remove", NoBody, r.err)
    /\ UNCHANGED runs

\* What the goroutines of /run leave alone.
runsFrame == <<bAttempt, bDelay, clientVars, tmp, now, orchVars>>

RunsNext ==
    \/ \E r \in Runs : RunRequest(r) /\ UNCHANGED runsFrame
    \/ \E r \in Runs : StepBegin(r) /\ UNCHANGED runsFrame
    \/ \E r \in Runs : StepEnd(r) /\ UNCHANGED runsFrame
    \/ \E ok \in BOOLEAN : RemoveCall(ok) /\ UNCHANGED runsFrame

SpecRuns == RunsInit /\ [][RunsNext]_vars

(***************************************************************************)
(* SpecChannels: the dialogue of manageChannels (channels.go) from the     *)
(* point where the lineup has been fetched: the stations are gone through  *)
(* in the order of their names and every question gets one of the answers. *)
(* fnCall holds the lineup and Config.Station at the start, the locals of  *)
(* the loop and, in out, Config.Station as it is.                          *)
(***************************************************************************)
MaxStations == 2

MaxConfigured == 2

StationIDs == {"s1", "s2", "s3"}

\* Station names in the order of sort.Strings.
NameOrder == <<"a", "b">>

Answers == {"y", "n", "all", "none", "skip"}

\* A sequence that names no station twice.
NoDuplicateID(seq) == \A i, j \in DOMAIN seq : seq[i].ID = seq[j].ID => i = j

\* sd.Resp.Lineup.Stations: stations with different IDs; names may repeat.
LineupStations ==
    {l \in SeqsUpTo([ID : StationIDs, Name : Range(NameOrder)], MaxStations) :
        l # <<>> /\ NoDuplicateID(l)}

\* Config.Station before the dialogue: channels configured earlier, no ID
\* twice.
ConfiguredStations ==
    {c \in SeqsUpTo([ID : StationIDs, Name : {"a"}], MaxConfigured) : NoDuplicateID(c)}

\* func (c *config) AddChannel(ch *channel)
AddChannel(station, ch) == Append(station, ch)

\* func (c *config) RemoveChannel(ch *channel)
RemoveChannel(station, ch) ==
    LET Other(old) == old.ID # ch.ID IN SelectSeq(station, Other)

\* func (c *config) GetChannels(): c.ChannelIDs
GetChannels(station) == [i \in DOMAIN station |-> station[i].ID]

RECURSIVE Repeat(_, _)
Repeat(seq, n) == IF n = 0 THEN <<>> ELSE seq \o Repeat(seq, n - 1)

RECURSIVE VisitsFrom(_, _)
VisitsFrom(stations, k) ==
    IF k > Len(NameOrder) THEN <<>>
    ELSE LET Named(st) == st.Name = NameOrder[k]
             named == SelectSeq(stations, Named)
         IN  Repeat(named, Len(named)) \o VisitsFrom(stations, k + 1)

\* for _, cName := range channelNames (sorted, one name per station) and,
\* inside, for _, station := range Stations with cName == station.Name: the
\* stations in the order in which the body of the loops is run.
Visits(stations) == VisitsFrom(stations, 1)

\* The dialogue before its first question: app.Config.GetChannels() has set
\* ChannelIDs, which the loop does not set again.
ManageStart(stations, station) ==
    [fn |-> "manageChannels", in |-> [stations |-> stations, station |-> station],
     done |-> FALSE, out |-> station, k |-> 1, ChannelIDs |-> GetChannels(station),
     addAll |-> FALSE, removeAll |-> FALSE, op |-> "none"]

\* The station of the loop body that is run next.
Current(s) == LET st == Visits(s.in.stations)[s.k] IN [ID |-> st.ID, Name |-> st.Name]

\* "+" when ContainsString(app.Config.ChannelIDs, station.StationID) != -1.
Existing(s) == IF ContainsString(s.ChannelIDs, Current(s).ID) # -1 THEN "+" ELSE "-"

\* The body of the loops for one station while neither addAll nor removeAll
\* is set: the question and the switch on the answer.
manageAnswer(s, input) ==
    LET ch == Current(s)
        next == [s EXCEPT !.k = @ + 1, !.op = "none"]
    IN  CASE input = "y" ->
                IF Existing(s) = "-"
                THEN [next EXCEPT !.out = AddChannel(@, ch), !.op = "add"]
                ELSE next
          [] input = "n" ->
                IF Existing(s) = "+"
                THEN [next EXCEPT !.out = RemoveChannel(@, ch), !.op = "remove"]
                ELSE next
          [] input = "all" ->
                [next EXCEPT !.out = AddChannel(@, ch), !.op = "add", !.addAll = TRUE]
          [] input = "none" ->
                [next EXCEPT !.out = RemoveChannel(@, ch), !.op = "remove",
                             !.removeAll = TRUE]
          [] OTHER -> [s EXCEPT !.done = TRUE, !.op = "none"]

\* The body of the loops for one station once addAll or removeAll is set.
manageRest(s) ==
    LET ch == Current(s)
        next == [s EXCEPT !.k = @ + 1, !.op = "none"]
    IN  IF s.removeAll /\ Existing(s) = "+"
        THEN [next EXCEPT !.out = RemoveChannel(@, ch), !.op = "remove"]
        ELSE IF s.addAll /\ Existing(s) = "-"
        THEN [next EXCEPT !.out = AddChannel(@, ch), !.op = "add"]
        ELSE next

ChannelsInit ==
    /\ PureIdle
    /\ fnCall \in {ManageStart(l, c) : l \in LineupStations, c \in ConfiguredStations}

\* The user answers the question for the next station.
ManageAnswer(input) ==
    /\ fnCall.fn = "manageChannels"
    /\ ~fnCall.done
    /\ fnCall.k <= Len(Visits(fnCall.in.stations))
    /\ ~fnCall.addAll /\ ~fnCall.removeAll
    /\ fnCall' = manageAnswer(fnCall, input)

\* No question is asked any more: the next station is added or removed.
ManageRest ==
    /\ fnCall.fn = "manageChannels"
    /\ ~fnCall.done
    /\ fnCall.k <= Len(Visits(fnCall.in.stations))
    /\ fnCall.addAll \/ fnCall.removeAll
    /\ fnCall' = manageRest(fnCall)

\* The loops are over: manageChannels returns.
ManageReturn ==
    /\ fnCall.fn = "manageChannels"
    /\ ~fnCall.done
    /\ fnCall.k > Len(Visits(fnCall.in.stations))
    /\ fnCall' = [fnCall EXCEPT !.done = TRUE, !.op = "none"]

ChannelsNext ==
    \/ \E input \in Answers : ManageAnswer(input) /\ UNCHANGED pureFrame
    \/ ManageRest /\ UNCHANGED pureFrame
    \/ ManageReturn /\ UNCHANGED pureFrame

SpecChannels == ChannelsInit /\ [][ChannelsNext]_vars

RetryableStatus == {429, 500, 502, 503, 504}

PolicyRetryable(o) == o \in TransportFailures \/ o[1] \in RetryableStatus

Succeeds(o) == o = <<200, "payload">>

Fails(o) == ~Succeeds(o)

\* The error value that a failed attempt leaves: the transport failure, or
\* what processResponse makes of the body.
FailureOf(o) ==
    IF o \in TransportFailures THEN o[2]
    ELSE processResponse("status", BodyOf(o, "status", 0))

Stopped(c) == conn[c].pc \in {"returned", "panic"}

\* C3: if the first n attempts of a Connect call fail with a retryable failure
\* and attempt n+1 succeeds (n+1 <= maxRetries), Connect returns success after
\* exactly n+1 requests and sd.Resp.Body is the body of attempt n+1.
C3_RetryThenSuccess ==
    \A c \in Clients :
        (Stopped(c) /\ script[c] # <<>>) =>
            \A n \in 0 .. maxRetries - 1 :
                ( /\ \A k \in 1 .. n : PolicyRetryable(script[c][k])
                  /\ Succeeds(script[c][n + 1]) )
                => /\ conn[c].pc = "returned"
                   /\ conn[c].result = "ok"
                   /\ conn[c].sent = n + 1
                   /\ conn[c].body = BodyOf(script[c][n + 1], conn[c].req, n + 1)

\* C4: a Connect call sends at most maxRetries requests, and when every
\* attempt it made has failed it has returned an error that carries the last
\* attempt's failure.
C4_BoundedAttemptsThenError ==
    \A c \in Clients :
        script[c] # <<>> =>
            /\ conn[c].sent <= maxRetries
            /\ ( Stopped(c) /\ \A k \in 1 .. conn[c].sent : Fails(script[c][k]) )
               => /\ conn[c].pc = "returned"
                  /\ conn[c].result \in {"AllRetriesFailed", conn[c].lastErr}
                  /\ conn[c].result # "ok"
                  /\ conn[c].lastErr = FailureOf(script[c][conn[c].sent])

\* C5: Connect sends another request after an attempt that failed with a
\* network error, a short read or a 429/500/502/503/504 response (unless that
\* was attempt maxRetries), and returns the error at once after an attempt that
\* failed otherwise (malformed body, error code in the payload, other 4xx).
C5_RetryPolicy ==
    \A c \in Clients :
        (Stopped(c) /\ script[c] # <<>> /\ conn[c].sent >= 1) =>
            LET last == script[c][conn[c].sent]
            IN  /\ (Fails(last) /\ PolicyRetryable(last)) => conn[c].sent = maxRetries
                /\ (Fails(last) /\ ~PolicyRetryable(last)) =>
                       conn[c].pc = "returned" /\ conn[c].result = FailureOf(last)

\* C7: when the caller's context is cancelled while Connect waits for a token,
\* Connect fails with a cancellation error and does not send the request.
C7_CancelAbortsWait ==
    \A c \in Clients :
        conn[c].cancelledInWait =>
            /\ ~conn[c].sentAfterCancel
            /\ \/ conn[c].pc = "wait"
               \/ conn[c].pc \in {"returned", "idle"} /\ conn[c].result = "Cancelled"

SchedStopped == orch.pc = "sched_ret" \/ Crashed

\* The three-batch scenario: batch 1 is answered, batch 2 is rejected with 503
\* on its first attempt and answered on the retry, batch 3 is answered.
RejectedOnceScenario ==
    /\ ~ctxDone
    /\ Len(orch.plan) >= 2
    /\ orch.plan[1] = OkScript
    /\ orch.plan[2] = Retry503
    /\ Len(orch.plan) = 3 => orch.plan[3] = OkScript

\* C9: in a schedule phase of 3 batches where the request of batch 2 is
\* rejected with a retryable remote error on its first attempt and succeeds on
\* the retry, processSchedules returns no error and the Schedule map holds the
\* slots of all 3 batch payloads.
C9_RejectedBatchStillMerged ==
    (RejectedOnceScenario /\ SchedStopped) =>
        /\ orch.pc = "sched_ret"
        /\ orch.result = "nil"
        /\ \A st \in Range(StationList) :
              /\ st \in DOMAIN cache.Schedule
              /\ cache.Schedule[st] = RemoteSlots(st, 1)

\* The scripts on which Connect returns nil: transport failures, then within
\* maxRetries attempts an answer that processResponse accepts.
Answered(s) ==
    \E n \in 1 .. maxRetries :
        /\ \A k \in 1 .. n - 1 : s[k] \in TransportFailures
        /\ s[n] \notin TransportFailures
        /\ processResponse("schedule", BodyOf(s[n], NoReq, n)) = "nil"

FailedTasks == {k \in DOMAIN tasks : tasks[k].err # "nil"}

\* C10: when not cancelled, processSchedules returns only after every
\* AddSchedule goroutine it started has finished; its receive from errChan
\* finds the channel closed, so it cannot wait forever; it returns the first
\* merge error that was recorded if a merge failed and nil otherwise; and a
\* failed merge stops nothing: every batch has been requested and every
\* answered batch has its goroutine.
C10_JoinThenFirstError ==
    /\ orch.pc = "sched_recv" => errChan.closed
    /\ (orch.pc = "sched_ret" /\ orch.result # "Cancelled") =>
          /\ \A k \in DOMAIN tasks : tasks[k].state = "done"
          /\ wg = 0
          /\ Len(orch.plan) * batchSize >= Len(StationList)
          /\ Len(tasks) = Cardinality({j \in DOMAIN orch.plan : Answered(orch.plan[j])})
          /\ IF FailedTasks # {}
             THEN /\ orch.result = "MergeErr"
                  /\ orch.errFrom = errChan.first
                  /\ orch.errFrom \in {tasks[k].batch : k \in FailedTasks}
             ELSE orch.result = "nil"

\* C10 witness: processSchedules has returned a merge error after three
\* goroutines, two of which failed and one of which merged.
C10_Witness ==
    /\ orch.pc = "sched_ret"
    /\ orch.result = "MergeErr"
    /\ Len(tasks) = 3
    /\ Cardinality(FailedTasks) = 2
    /\ \A k \in DOMAIN tasks : tasks[k].state = "done"

C2_NeverRefetched ==
    /\ orch.requested \cap orch.startKeys = {}
    /\ orch.refetched = {}

\* C2 witness: the second run sends a programs request while a program that
\* the first run merged and saved, and that CleanUp deleted from memory after
\* the save, is referenced by the schedule and is not in the request.
C2_Witness ==
    /\ orch.run = 2
    /\ orch.pc = "prog_call"
    /\ orch.t = "programs"
    /\ orch.requested # {}
    /\ "A" \in orch.prevSaved \cap orch.startRefs
    /\ "A" \notin orch.requested

\* The batch that task tk was started for.
OwnData(tk) ==
    IF tk.kind = "schedule"
    THEN Batch(StationList, (tk.batch - 1) * batchSize, batchSize)
    ELSE Batch(orch.ids, (tk.batch - 1) * metadataBatchSize, metadataBatchSize)

\* C11: in the program and metadata phases the wait-group counter never
\* drops below zero, and wg.Wait() returns only after every task that the
\* phase dispatched has finished merging.
C11_ProgramJoinMatchesDone ==
    /\ ~(orch.pc = "panic" /\ orch.result = "NegativeCounter")
    /\ orch.pc = "prog_recv" =>
           \A k \in DOMAIN tasks : tasks[k].orphan \/ tasks[k].state # "ready"

\* C12: every merge task decodes the answer to its own batch request, under
\* every interleaving of the dispatch loop and the goroutines.
C12_TaskMergesOwnPayload ==
    \A k \in DOMAIN tasks :
        (tasks[k].state # "ready" /\ ~tasks[k].orphan) =>
            tasks[k].read.req.data = OwnData(tasks[k])

\* C13: a phase computes its work and sends its requests only after every
\* merge of the phase before it is done: no schedule merge is outstanding in
\* the program phase, no program merge in the metadata phase.
C13_PhasesStrictlySequential ==
    LET InPhase(t) == orch.t = t /\ orch.pc \in {"type_loop", "prog_loop", "prog_call",
                                                 "prog_wait", "prog_recv"}
        Outstanding(kind) == \E k \in DOMAIN tasks :
                                 tasks[k].kind = kind /\ tasks[k].state = "ready"
    IN  /\ (orch.pc = "prog_start" \/ InPhase("programs")) => ~Outstanding("schedule")
        /\ (InPhase("metadata") /\ orch.pc # "type_loop") => ~Outstanding("programs")

\* C14: once the context is cancelled no new batch request is dispatched,
\* and the outcome of the phase is reported only after every merge task that
\* was dispatched has run to completion.
C14_CancelLetsMergesFinish ==
    /\ [][(ctxDone /\ orch'.pc = "sched_call") => orch.pc = "sched_call"]_vars
    /\ [](orch.pc = "sched_ret" =>
              \A k \in DOMAIN tasks : tasks[k].state = "done")

\* The requests of the current phase on which Connect returned an error.
Skipped == {n \in DOMAIN orch.plan : ~Answered(orch.plan[n])}

\* C15: a batch or lineup whose fetch fails after the client's retries is
\* skipped: no merge is started for it, the batches after it are still
\* requested, and the phase returns an error only for a merge that failed.
C15_FetchErrorSkipsBatch ==
    /\ (orch.pc = "lineup_loop" /\ orch.i >= 1 /\ 1 \in Skipped) =>
           cache.Channel = EmptyMap
    /\ orch.pc \in {"sched_loop", "sched_call", "sched_wait", "sched_recv", "sched_ret",
                    "prog_loop", "prog_call", "prog_wait", "prog_recv"} =>
           \A k \in DOMAIN tasks : ~tasks[k].orphan => tasks[k].batch \notin Skipped
    /\ orch.pc = "sched_wait" => Len(orch.plan) * batchSize >= Len(StationList)
    /\ orch.pc = "prog_wait" => Len(orch.plan) * metadataBatchSize >= Len(orch.ids)
    /\ (orch.pc = "sched_ret" /\ orch.result # "Cancelled") =>
           \/ orch.result = "nil" /\ FailedTasks = {}
           \/ orch.result = "MergeErr" /\ FailedTasks # {}
    /\ (orch.pc = "idle" /\ orch.run >= 1) =>
           /\ orch.result \in {"nil", "Cancelled", "LoginErr", "StatusErr", "MergeErr"}
           /\ orch.result = "MergeErr" => FailedTasks # {}

\* C15 witness: the schedule phase has returned nil after the request of
\* batch 1 failed on every attempt: batches 2 and 3 were requested and
\* merged, and no task was started for batch 1.
C15_Witness ==
    /\ orch.pc = "sched_ret"
    /\ orch.result = "nil"
    /\ orch.plan = <<NetDown, OkScript, OkScript>>
    /\ Len(tasks) = 2
    /\ \A k \in DOMAIN tasks : tasks[k].state = "done" /\ tasks[k].batch \in {2, 3}
    /\ DOMAIN cache.Schedule = {"s2", "s3"}

\* C16: when a run fails in some phase after the lineup phase has completed,
\* the stations that the lineup phase merged are in the cache file afterwards.
C16_FailedRunPersistsCompletedPhases ==
    (orch.pc = "idle" /\ orch.run >= 1 /\ orch.result \in {"Cancelled", "MergeErr"}) =>
        \A st \in DOMAIN cache.Channel :
            file.exists /\ st \in DOMAIN file.Channel

\* C17: for each of the four merge operations and every payload, merging the
\* payload twice in a row leaves every map as merging it once does.
C17_MergeTwiceIsMergeOnce ==
    LET b == conn["c1"].body
        once == MergeFor(b.req.call, cache, b)
    IN  (b.kind = "payload"
           /\ b.req.call \in {"lineups", "schedule", "programs", "metadata"}
           /\ once.err = "nil") =>
            MergeFor(b.req.call, once.c, b).c = once.c

\* The store after the payloads that the tasks 1 .. n read have been merged
\* one after the other, in the order of dispatch, into the store c.
RECURSIVE MergedInDispatchOrder(_, _)
MergedInDispatchOrder(c, n) ==
    IF n = 0 THEN c
    ELSE LET before == MergedInDispatchOrder(c, n - 1)
             r == MergeOf(tasks[n].kind, before, tasks[n].read)
         IN  IF r.err = "nil" THEN r.c ELSE before

ScheduleTasks == {k \in DOMAIN tasks : tasks[k].kind = "schedule" /\ ~tasks[k].orphan}

\* C19: after the schedule phase of a run that started from a loaded
\* snapshot, the Schedule entry of every station that this run received holds
\* the slots delivered in this run and no others.
C19_RunReplacesSlotList ==
    (/\ orch.pc = "sched_ret"
     /\ orch.result = "nil"
     /\ orch.run >= 2
     /\ file.exists
     /\ \A k \in ScheduleTasks : tasks[k].read.req.data = OwnData(tasks[k])) =>
        \A k \in ScheduleTasks : \A st \in Range(OwnData(tasks[k])) :
            cache.Schedule[st] = RemoteSlots(st, now)

\* C20: CleanUp at time now removes every schedule slot whose air time is
\* <= now and keeps, in their order, the slots whose air time is > now; a
\* station with no slot left loses its key; a second CleanUp at the same now
\* changes nothing.
C20_CleanUpPrunesDueSlots ==
    [][(orch.pc = "cleanup" /\ orch'.pc = "idle") =>
          LET pre == cache.Schedule
              post == cache'.Schedule
              Later(slot) == slot.AirDateTime > now
              Due(slot) == slot.AirDateTime <= now
          IN  /\ DOMAIN post \subseteq DOMAIN pre
              /\ \A st \in DOMAIN pre :
                    /\ st \in DOMAIN post <=>
                           \E i \in DOMAIN pre[st] : pre[st][i].AirDateTime > now
                    /\ st \in DOMAIN post =>
                           /\ post[st] = SelectSeq(pre[st], Later)
                           /\ SelectSeq(post[st], Due) = <<>>
              /\ CleanUp(cache', now) = cache']_vars

\* C20 witness: the CleanUp of the second run, on day 2, has dropped station
\* s1, whose only slot aired on day 2, and has kept of the two slots of s2 the
\* one that airs on day 3.
C20_Witness ==
    /\ orch.pc = "idle"
    /\ orch.run = 2
    /\ orch.result = "nil"
    /\ now = 2
    /\ file.exists
    /\ "s1" \in DOMAIN file.Schedule
    /\ "s1" \notin DOMAIN cache.Schedule
    /\ "s2" \in DOMAIN file.Schedule
    /\ "s2" \in DOMAIN cache.Schedule
    /\ Len(file.Schedule["s2"]) = 2
    /\ cache.Schedule["s2"] = <<[ProgramID |-> "B", AirDateTime |-> 3]>>

\* C21: the store is expired exactly when now is after its expiration, and an
\* Open that finds the store expired returns with the four maps empty: no
\* entry of the snapshot is in the store once Open has run.
C21_ExpiredOpenLeavesMapsEmpty ==
    (/\ file.exists
     /\ orch.pc \in {"init", "xml_init", "hung"}
     /\ now > cache.expiration)
        => /\ orch.pc # "hung"
           /\ \A m \in MapNames : cache[m] = EmptyMap

\* C22: Save and then Open on a fresh store with the same file path: both
\* calls return without error, and the fresh store then holds in each of the
\* four maps exactly the keys and values that the saved store held.
C22_SaveThenOpenRoundTrips ==
    [][(/\ orch.pc = "ready"
        /\ fnCall.fn = "Save"
        /\ fnCall.out = "nil"
        /\ orch'.pc \in {"opened", "hung"})
          => /\ orch'.pc = "opened"
             /\ orch'.result = "nil"
             /\ \A m \in MapNames : cache'[m] = cache[m]]_vars

Undecodable(call, body) ==
    \/ body.kind \in {"garbage", "badarray"}
    \/ body.kind = "errobj" /\ call # "lineups"
    \/ /\ body.kind = "payload"
       /\ body.req.call # call
       /\ ~({call, body.req.call} \subseteq GzipCalls)

\* A step of the store driver that is a call of a merge operation.
IsMergeStep ==
    /\ orch.pc = "ready"
    /\ orch'.pc = "ready"
    /\ orch'.i = orch.i + 1
    /\ fnCall'.fn \in MergeCalls

\* C24: a merge operation given an undecodable payload returns an error and
\* leaves the four maps as they were.
C24_UndecodablePayloadMergesNothing ==
    [][(IsMergeStep /\ Undecodable(fnCall'.fn, fnCall'.in))
          => /\ fnCall'.out \in {"DecodeErr", "GzipErr"}
             /\ \A m \in MapNames : cache'[m] = cache[m]]_vars

\* C24 witness: AddSchedule has been given a body that is no JSON while the
\* store held entries, and has returned an error.
C24_Witness ==
    /\ orch.pc = "ready"
    /\ fnCall.fn = "schedule"
    /\ fnCall.in.kind = "garbage"
    /\ fnCall.in.req.call = "schedule"
    /\ fnCall.out = "DecodeErr"
    /\ cache.Schedule # EmptyMap
    /\ cache.Program # EmptyMap

\* C25: AddMetadata on a metadata array that holds an error object in place
\* of a record returns no error, stores no Metadata entry for the error
\* object and stores the record of every other element.
C25_ErrorObjectsAreSkipped ==
    [][(/\ IsMergeStep
        /\ fnCall'.fn = "metadata"
        /\ fnCall'.in.kind = "payload"
        /\ fnCall'.in.req.call = "metadata")
          => LET ids == Range(fnCall'.in.req.data)
                 errs == ids \cap ErrorProgramIDs
             IN  /\ fnCall'.out = "nil"
                 /\ \A p \in errs :
                        p \in DOMAIN cache'.Metadata =>
                            /\ p \in DOMAIN cache.Metadata
                            /\ cache'.Metadata[p] = cache.Metadata[p]
                 /\ \A p \in ids \ errs :
                        /\ p \in DOMAIN cache'.Metadata
                        /\ cache'.Metadata[p] = [Data |-> "meta"]]_vars

\* C26: AddStations inserts a station exactly when the station is in the
\* payload and its ID is among the station IDs selected in the configuration
\* for that lineup; in every state every key of Channel is a selected station
\* ID.
C26_OnlySelectedStationsStored ==
    /\ [][(/\ orch.pc = "lineup_call"
           /\ orch'.pc = "lineup_loop"
           /\ conn["c1"].result = "ok")
             => LET lineup == conn["c1"].body.req.data[1]
                    selected == {st \in Range(StationList) : StationLineup[st] = lineup}
                IN  DOMAIN cache'.Channel =
                        DOMAIN cache.Channel \cup (RemoteLineupStations \cap selected)]_vars
    /\ [](DOMAIN cache.Channel \subseteq Range(StationList))

\* C26 witness: the lineup phase has merged the answer for L1, which lists
\* s1, s2, s3 (selected in another lineup) and s9 (not selected): s1 and s2
\* are the keys of Channel.
C26_Witness ==
    /\ orch.pc = "lineup_loop"
    /\ orch.i = 1
    /\ orch.run = 1
    /\ DOMAIN cache.Channel = {"s1", "s2"}

\* C27: a request other than the login is in Connect only while the token of
\* a successful Login is held; Update calls Login exactly when it holds no
\* token; when the Login fails Update returns its error with the token empty
\* and no request under way, and when it succeeds the token is kept.  A
\* process that has died of a panic sends nothing.
C27_RequestsFollowLogin ==
    /\ [](conn["c1"].call \notin {"none", "login"} => orch.token)
    /\ [](orch.pc \notin {"idle", "login_call", "panic"} => orch.token)
    /\ [][(orch.pc = "idle" /\ orch'.pc \notin {"idle", "panic"})
             => IF orch.token
                THEN orch'.pc = "open" /\ conn' = conn
                ELSE orch'.pc = "login_call" /\ conn'["c1"].call = "login"]_vars
    /\ [][(orch.pc = "login_call" /\ orch'.pc \notin {"login_call", "panic"})
             => IF conn["c1"].result = "ok"
                THEN orch'.token /\ orch'.pc = "open"
                ELSE /\ ~orch'.token
                     /\ orch'.pc = "idle"
                     /\ orch'.result = "LoginErr"
                     /\ conn'["c1"].pc = "idle"]_vars

\* C27 witness: the Login of the first run has failed; Update has returned
\* the error, the token is empty and no request is under way.
C27_Witness ==
    /\ orch.pc = "idle"
    /\ orch.run = 1
    /\ orch.result = "LoginErr"
    /\ ~orch.token
    /\ conn["c1"].pc = "idle"
    /\ conn["c1"].calls = 1

\* The country of an entry of the result, read back from its system.
CountryOfEntry(e, in) ==
    IF in.CountryCodeAsSystem
    THEN e.System
    ELSE CHOOSE c \in RatingCountries : RatingBodyOf[c] = e.System

\* C28: GetRating returns no entry when the rating option is off; at most
\* MaxEntries entries when MaxEntries is not 0, and with 0 and no preferred
\* countries every rating of the program; with no preferred countries the
\* ratings of the country of the lineup before all others; with preferred
\* countries only ratings of those countries, in the order of the
\* configured list.
C28_RatingSelection ==
    (fnCall.fn = "GetRating" /\ fnCall.done) =>
        LET in == fnCall.in
            out == fnCall.out
            country(i) == CountryOfEntry(out[i], in)
        IN  /\ ~in.Guidelines => out = <<>>
            /\ in.MaxEntries # 0 => Len(out) <= in.MaxEntries
            /\ \A i \in DOMAIN out :
                   \E k \in DOMAIN in.ratings : out[i] = RatingEntry(in.ratings[k], in)
            /\ in.Countries = <<>> =>
                   /\ \A i, j \in DOMAIN out :
                          (i < j /\ country(j) = in.countryCode)
                              => country(i) = in.countryCode
                   /\ (in.MaxEntries = 0 /\ in.Guidelines /\ in.present)
                          => Len(out) = Len(in.ratings)
            /\ in.Countries # <<>> =>
                   \E f \in [DOMAIN out -> DOMAIN in.Countries] :
                       /\ \A i \in DOMAIN out : in.Countries[f[i]] = country(i)
                       /\ \A i, j \in DOMAIN out : i < j => f[i] <= f[j]

\* C28 witness: the program has the ratings of DEU, USA and CHE in that order,
\* the preferred countries are USA then DEU and there is no limit: the result
\* is the USA rating followed by the DEU rating.
C28_Witness ==
    /\ fnCall.fn = "GetRating"
    /\ fnCall.done
    /\ fnCall.in.Guidelines
    /\ fnCall.in.present
    /\ fnCall.in.MaxEntries = 0
    /\ ~fnCall.in.CountryCodeAsSystem
    /\ fnCall.in.Countries = <<"USA", "DEU">>
    /\ fnCall.in.ratings = <<ContentRatingOf("DEU"), ContentRatingOf("USA"),
                             ContentRatingOf("CHE")>>
    /\ fnCall.out = <<[Value |-> "TV14", System |-> "USA Parental Rating"],
                      [Value |-> "12",
                       System |-> "Freiwillige Selbstkontrolle der Filmwirtschaft"]>>

\* The bytes of a-z, A-Z, 0-9, ".", "_" and "-".
SafeBytes == (97 .. 122) \cup (65 .. 90) \cup (48 .. 57) \cup {46, 95, 45}

\* C29: for every image ID that is empty or has a character outside
\* [a-zA-Z0-9._-], proxyImages answers 400 and sends no upstream request.
C29_UnsafeImageIDRejected ==
    (fnCall.fn = "proxyImages" /\ fnCall.done) =>
        LET id == fnCall.in.id
        IN  (id = <<>> \/ \E i \in DOMAIN id : id[i] \notin SafeBytes)
                => fnCall.out = [status |-> 400, sent |-> FALSE]

\* C29 witness: the ID "../" has been answered 400 with no upstream request,
\* whatever the upstream server would have done.
C29_Witness ==
    /\ fnCall.fn = "proxyImages"
    /\ fnCall.done
    /\ fnCall.in.id = <<46, 46, 47>>
    /\ fnCall.in.upstream = "200"
    /\ fnCall.out.status = 400
    /\ ~fnCall.out.sent

\* The cleaned path is the directory dir or lies below it: the elements of
\* dir are the first elements of the path.
LiesWithin(path, dir) ==
    LET p == Elements(path)
        d == Elements(dir)
    IN  Len(p) >= Len(d) /\ SubSeq(p, 1, Len(d)) = d

\* C30: validateImagePath(base, name) returns an error for every name whose
\* cleaned joined path lies outside the base directory and nil for every
\* name whose cleaned joined path lies inside it.
C30_PathOutsideBaseRejected ==
    (fnCall.fn = "validateImagePath" /\ fnCall.done) =>
        LET base == fnCall.in.basePath
            joined == Clean(Join(base, fnCall.in.name))
        IN  (fnCall.out = "nil") <=> LiesWithin(joined, Clean(base))

(***************************************************************************)
(* The store's lock and the ownership of the maps.                         *)
(***************************************************************************)
\* A step in which a call of Cache.Init() returns: by the embedding program
\* before the first run, in GetData, in CreateXMLTV.
InitReturns ==
    \/ orch.pc = "idle" /\ orch.run = 0 /\ orch' = orch /\ cache' # cache
    \/ orch.pc = "init" /\ orch'.pc = "status_req"
    \/ orch.pc = "xml_init" /\ orch'.pc = "cleanup"

\* A step in which a merge writes to a nil map: AddStations in the
\* orchestrator, or AddSchedule, AddProgram, AddMetadata in a goroutine.
WritesNilMap ==
    /\ orch.pc # "panic"
    /\ orch'.pc = "panic"
    /\ orch.pc = "lineup_call" \/ orch'.result = "NilMap"

\* C31: after Init returns none of the four maps is nil, whatever the store
\* was before; GetData comes to its first request only through its call of
\* Init; and no merge ever writes to a nil map.
C31_NoMergeWritesNilMap ==
    /\ [][InitReturns => cache'.nilMaps = {}]_vars
    /\ [][orch'.pc = "status_req" /\ orch.pc # "status_req" => orch.pc = "init"]_vars
    /\ [][~WritesNilMap]_vars

\* C32: every store method returns.  Open returns whether the cache file is
\* absent, present and unexpired, or present and expired, and Remove returns:
\* no method is left waiting for the lock that it holds itself.
C32_StoreMethodsReturn ==
    /\ mu # "stuck"
    /\ \A r \in Runs : runs[r].at # "hung"

\* The goroutine that ends a step in this transition.
EndsStep(r) == runs[r].at = "in" /\ runs'[r] # runs[r]

\* C33: the orchestrator never writes the maps itself: every change of the
\* Channel, Schedule, Program or Metadata map is made by a store method that
\* holds the store's write lock.
C33_MapsChangeOnlyInStoreMethods ==
    [][\A m \in MapNames :
          cache'[m] # cache[m] =>
              \E r \in Runs : /\ EndsStep(r)
                              /\ UpdateSteps[runs[r].pc] \in LockedSteps
                              /\ mu = "held"]_vars

\* The step that goroutine r is in the middle of, "none" when it is in none.
StepOf(r) == IF runs[r].at = "in" THEN UpdateSteps[runs[r].pc] ELSE "none"

\* The reads of the renderer and the accessors.
ReadingSteps == {"RangeChannel", "GetSchedule", "GetTitle"}

\* C34: every access to the maps is made with the store's lock held, so that
\* no read of the renderer or of an accessor is under way while a merge,
\* CleanUp or Open is writing.
C34_EveryAccessUnderLock ==
    /\ \A r \in Runs : StepOf(r) # "none" => StepOf(r) \in LockedSteps /\ mu = "held"
    /\ \A r, w \in Runs :
          ~(/\ StepOf(r) \in ReadingSteps
            /\ StepOf(w) \in WritingSteps \ {"Reset", "Init"})

\* C35: GetData only adds to the store: when it comes to Save, every key of
\* the snapshot that its Open has loaded is still a key of the same map,
\* also when a lineup could not be fetched.
C35_PipelineIsAdditive ==
    (orch.pc = "save" /\ file.exists) =>
        \A m \in MapNames : DOMAIN file[m] \subseteq DOMAIN cache[m]

\* C36: the snapshot carries the expiration of the store that was saved:
\* when a fresh store opens it, Open takes its expired branch exactly when
\* the current time is after the expiration of the saved store.
C36_OpenChecksSavedExpiration ==
    [][(/\ orch.pc = "ready"
        /\ fnCall.fn = "Save"
        /\ fnCall.out = "nil"
        /\ orch'.pc \in {"opened", "hung"})
          => (orch'.pc = "hung" <=> now > cache.expiration)]_vars

\* The slots of station st that CleanUp removes from store c at time t.
PrunedSlots(c, t, st) ==
    {c.Schedule[st][i] : i \in {j \in DOMAIN c.Schedule[st] : c.Schedule[st][j].AirDateTime <= t}}

\* C37: when Update has run to its end (GetData with Save, CreateXMLTV,
\* CleanUp), the snapshot that the next run will load holds no schedule slot
\* that this CleanUp has removed.
C37_SnapshotHoldsNoPrunedSlot ==
    [][(orch.pc = "cleanup" /\ orch'.pc = "idle" /\ file'.exists) =>
          \A st \in DOMAIN cache.Schedule \cap DOMAIN file'.Schedule :
              Range(file'.Schedule[st]) \cap PrunedSlots(cache, now, st) = {}]_vars

\* C38: CleanUp deletes no Program entry that a slot it keeps refers to,
\* whatever the program's original air date.
C38_CleanUpKeepsReferencedPrograms ==
    [][(orch.pc = "cleanup" /\ orch'.pc = "idle") =>
          DOMAIN cache.Program \cap ReferencedProgramIDs(cache') \subseteq DOMAIN cache'.Program]_vars

\* The steps of the phases of GetData that change the maps.
PhaseSteps == {"Reset", "AddStations", "AddSchedule", "AddProgram", "AddMetadata"}

\* Goroutine r is in a phase of GetData: about to make one of its steps or in
\* the middle of it.
InPhase(r) ==
    /\ runs[r].at \in {"before", "in"}
    /\ UpdateSteps[runs[r].pc] \in PhaseSteps

\* C39: when /run is requested while an earlier update is still running, the
\* two updates are never in their phases on the store at the same time.
C39_OneRunAtATime ==
    \A a, b \in Runs : a # b => ~(InPhase(a) /\ InPhase(b))

\* C40: whatever the answers, Config.Station names no station twice when the
\* list and the lineup named none twice at the start; AddChannel is applied
\* only to a station that is not in the list; RemoveChannel(ch) takes out
\* every entry with the ID of ch and leaves the others as they were.
C40_OneEntryPerStation ==
    /\ [](fnCall.fn = "manageChannels" => NoDuplicateID(fnCall.out))
    /\ [][fnCall'.op = "add" =>
            \A i \in DOMAIN fnCall.out : fnCall.out[i].ID # Current(fnCall).ID]_vars
    /\ [][fnCall'.op = "remove" =>
            LET Other(old) == old.ID # Current(fnCall).ID
            IN  fnCall'.out = SelectSeq(fnCall.out, Other)]_vars

=============================================================================
